---- MODULE Spec2Model ----
(***************************************************************************)
(* LokiPool: a SOCKS5 front-end over a pool of upstream SOCKS5 proxies.    *)
(*                                                                         *)
(* The module models four parts of the repository, each with its own       *)
(* specifications over the shared variable tuple:                          *)
(*   Spec          lokipool-core Pool (add, get_available, test_all,       *)
(*                 retry_connections) over Proxy values                    *)
(*   SpecTestAll   Pool::test_all over every result a tester can return    *)
(*   SpecProxyPool lokipool-core ProxyPool (load_from_file, the health     *)
(*                 check loop)                                             *)
(*   SpecRotation  ProxyPool::next_proxy on an unchanging list             *)
(*   SpecSession   SocksServer::handle_connection, one session             *)
(*   SpecShutdown  main / run_with_shutdown / the shutdown broadcast       *)
(***************************************************************************)
EXTENDS Integers, Sequences, FiniteSets, TLC

VARIABLES
    \* ---- Pool (crates/lokipool-core/src/pool.rs)
    proxies,        \* HashMap<String, Proxy>: id -> Proxy
    max_size,       \* PoolOptions.max_size
    op,             \* the last Pool call and its arguments
    ret,            \* the value the last Pool call returned
    \* ---- ProxyPool (crates/lokipool-core/src/proxy_pool.rs)
    pp_proxies,     \* Vec<ProxyEntry> behind the proxies RwLock
    current_index,  \* usize behind the current_index RwLock
    retry_times,    \* config.proxy.retry_times
    proxy_file,     \* lines of the persisted proxy file
    hc_tasks,       \* number of health-check tasks spawned so far
    hc_pc,          \* "sleep" or "cycle": whether a task holds the write lock
    hc_i,           \* the index i of the running health-check cycle
    pp_op,          \* Some(probe result) right after a health-check probe, else None
    calls,          \* what next_proxy returned, call by call (SpecRotation)
    consec,         \* address -> failed probes in a row since load / last success
    \* ---- one session (src/socks_server.rs handle_connection)
    s_pc,           \* position of the session in handle_connection
    s_req,          \* what the session has read from the client so far
    s_proxy,        \* the upstream chosen by get_available
    client_out,     \* frames written to the client socket, in order
    upstream_out,   \* frames written to the upstream socket, in order
    s_up,           \* what has been read from the upstream so far
    s_result,       \* "running", "ok" or "err": result of handle_connection
    \* ---- shutdown (src/main.rs, src/socks_server.rs run_with_shutdown)
    main_pc,        \* position of the main task
    senders,        \* live broadcast::Sender handles
    sent,           \* number of values pushed into the broadcast channel
    listener,       \* [pc, pos, result]: accept loop state, receiver position,
                    \* and what run_with_shutdown returned
    sessions,       \* session task -> [pc, pos, how]
    wait_result,    \* what timeout(..., server_handle) returned, once it has
    \* ---- threads calling into one shared Pool (pool.rs, the Mutex)
    th,             \* thread -> [pc, call, ret, after, ...]: its call in progress
    mutex,          \* the holder of the Pool's Mutex: Some(thread) or None
    pool0,          \* the map when the threads started
    \* ---- tasks calling into one shared ProxyPool (proxy_pool.rs, the RwLocks)
    rwlocks,        \* lock -> [readers, writer, queue] for proxies, current_index
    tasks,          \* task -> its position in the call it makes
    \* ---- the command interface (src/main.rs process_command)
    shown,          \* what the show command reported, call by call
    now             \* time elapsed, in switch intervals

poolVars == <<proxies, max_size, op, ret>>
ppVars == <<pp_proxies, current_index, retry_times, proxy_file, hc_tasks, hc_pc,
            hc_i, pp_op, calls, consec>>
sessVars == <<s_pc, s_req, s_proxy, client_out, upstream_out, s_up, s_result>>
shutVars == <<main_pc, senders, sent, listener, sessions, wait_result>>
concVars == <<th, mutex, pool0>>
cliVars == <<shown, now>>
lockVars == <<rwlocks, tasks>>
vars == <<poolVars, ppVars, sessVars, shutVars, concVars, cliVars, lockVars>>

\* What the calls on one part of the program leave alone
NotPool == UNCHANGED <<ppVars, sessVars, shutVars, concVars, cliVars, lockVars>>
NotProxyPool == UNCHANGED <<poolVars, sessVars, shutVars, concVars, cliVars, lockVars>>

(***************************************************************************)
(* Bounds of the model.                                                    *)
(***************************************************************************)
NumIds == 2         \* proxy ids (UUIDs) that occur
MaxCap == 2         \* max_size ranges over 0..MaxCap
MaxLatency == 2     \* measured latencies range over 1..MaxLatency

Ids == 1..NumIds
Latencies == 1..MaxLatency

(***************************************************************************)
(* Proxy (src/proxy.rs)                                                    *)
(***************************************************************************)
ProxyStatus == {"Available", "InUse", "Failed", "Untested", "Unknown"}

\* u64::MAX, the never-measured latency: above every latency a probe measures.
U64_MAX == MaxLatency + 1

\* Option<T>: None is the empty set, Some(x) is {x}.
None == {}
Some(x) == {x}

\* Proxy::new: status Unknown, info.status Untested, latency u64::MAX.
ProxyNew(id) ==
    [id |-> id, status |-> "Unknown", info_status |-> "Untested",
     latency |-> U64_MAX, last_latency |-> None]

\* Proxy::update_status
update_status(p, status) ==
    [p EXCEPT !.status = status, !.info_status = status]

\* Proxy::update_latency
update_latency(p, latency_ms) ==
    [p EXCEPT !.last_latency = Some(latency_ms)]

\* An update that sets the status and drops the latency.
UpdateStatusOnly(p, status, latency) == update_status(p, status)

\* Proxy::update_status_and_latency
update_status_and_latency(p, status, latency) ==
    LET q == update_status(p, status)
    IN  IF latency # None
        THEN LET lat == CHOOSE l \in latency : TRUE
             IN  update_latency([q EXCEPT !.latency = lat], lat)
        ELSE q

(***************************************************************************)
(* Tester (crates/lokipool-core/src/tester.rs)                             *)
(***************************************************************************)
\* Tester::test_proxy: the result it returns for a proxy when the elapsed
\* time is `elapsed`.  The shipped implementation sleeps, then reports
\* success with the elapsed time.
test_proxy(p, elapsed) ==
    [kind |-> "Ok", proxy_id |-> p.id, success |-> TRUE, latency |-> Some(elapsed)]

\* Result<TestResult>: the value a tester hands to the callers of test_proxy
\* for proxy p.  A TestResult starts as a failure without latency and is
\* turned into a success with the measured latency; Err is the other arm
\* the callers match on.
TestResultOf(p, how, elapsed) ==
    IF how = "success" THEN test_proxy(p, elapsed)
    ELSE [kind |-> IF how = "error" THEN "Err" ELSE "Ok", proxy_id |-> p.id,
          success |-> FALSE, latency |-> None]

(***************************************************************************)
(* Pool (crates/lokipool-core/src/pool.rs)                                 *)
(***************************************************************************)
\* HashMap::insert
MapInsert(m, k, v) == [x \in DOMAIN m \cup {k} |-> IF x = k THEN v ELSE m[x]]

\* The orders in which a HashMap with key set S may be iterated.
RECURSIVE Orders(_)
Orders(S) ==
    IF S = {} THEN {<<>>}
    ELSE UNION {{<<x>> \o o : o \in Orders(S \ {x})} : x \in S}

\* Proxies that callers can hand to Pool::add: a Proxy::new value, possibly
\* after one public update_status call (InUse is set nowhere in the code).
AddInputs(id) ==
    {ProxyNew(id)} \cup
    {update_status(ProxyNew(id), s) : s \in {"Untested", "Failed", "Available"}}

\* A capacity test that lets the map grow one past max_size.
AddFullOffByOne(m, max) == Cardinality(DOMAIN m) > max

\* Pool::add, the capacity test
AddFull(m, max) == Cardinality(DOMAIN m) >= max

\* Pool::add
Add(proxy) ==
    /\ op' = [name |-> "add", proxy |-> proxy]
    /\ IF AddFull(proxies, max_size)
       THEN /\ ret' = [kind |-> "Err"]
            /\ UNCHANGED proxies
       ELSE /\ proxies' = MapInsert(proxies, proxy.id, proxy)
            /\ ret' = [kind |-> "Ok"]
    /\ UNCHANGED max_size
    /\ NotPool

\* Iterator::min_by_key over the Available values in iteration order `order`:
\* the first of several equally minimum elements is kept.
RECURSIVE MinByLatency(_, _, _)
MinByLatency(order, m, best) ==
    IF order = <<>> THEN best
    ELSE LET p == m[Head(order)]
         IN  IF p.status # "Available"
             THEN MinByLatency(Tail(order), m, best)
             ELSE IF best = None
                  THEN MinByLatency(Tail(order), m, Some(p))
                  ELSE LET b == CHOOSE x \in best : TRUE
                       IN  IF p.latency < b.latency
                           THEN MinByLatency(Tail(order), m, Some(p))
                           ELSE MinByLatency(Tail(order), m, best)

\* A get_available that takes the first Available entry it meets.
RECURSIVE GetAvailableFirst(_, _)
GetAvailableFirst(m, order) ==
    IF order = <<>> THEN None
    ELSE IF m[Head(order)].status = "Available" THEN Some(m[Head(order)])
         ELSE GetAvailableFirst(m, Tail(order))

\* Pool::get_available under one iteration order of the map
get_available(m, order) == MinByLatency(order, m, None)

GetAvailable ==
    \E order \in Orders(DOMAIN proxies) :
        /\ op' = [name |-> "get_available"]
        /\ ret' = [kind |-> "Option", value |-> get_available(proxies, order)]
        /\ UNCHANGED <<proxies, max_size>>
        /\ NotPool

\* A match that leaves the entry's status alone when the probe fails.
ApplyTestResultKeepsStatus(p, r) ==
    IF r.kind = "Ok" /\ r.success
    THEN update_status_and_latency(p, "Available", r.latency)
    ELSE p

\* Pool::test_all, the match on one entry's test result
ApplyTestResult(p, r) ==
    IF r.kind = "Ok"
    THEN IF r.success
         THEN update_status_and_latency(p, "Available", r.latency)
         ELSE update_status_and_latency(p, "Failed", None)
    ELSE update_status(p, "Failed")

\* Pool::test_all, the TestResult pushed for one entry
PushedResult(p, r) ==
    IF r.kind = "Ok"
    THEN [proxy_id |-> r.proxy_id, success |-> r.success, latency |-> r.latency]
    ELSE [proxy_id |-> p.id, success |-> FALSE, latency |-> None]

\* A loop that reports nothing for an entry that was Available already.
RECURSIVE TestAllLoopSkipsAvailable(_, _, _, _)
TestAllLoopSkipsAvailable(order, outcome, m, results) ==
    IF order = <<>> THEN [map |-> m, results |-> results]
    ELSE LET id == Head(order)
             r == outcome[id]
         IN  TestAllLoopSkipsAvailable(Tail(order), outcome,
                         [m EXCEPT ![id] = ApplyTestResult(m[id], r)],
                         IF m[id].status = "Available" THEN results
                         ELSE Append(results, PushedResult(m[id], r)))

\* A loop that applies the result of the first entry it visits only.
RECURSIVE TestAllLoopFirstOnly(_, _, _, _)
TestAllLoopFirstOnly(order, outcome, m, results) ==
    IF order = <<>> THEN [map |-> m, results |-> results]
    ELSE LET id == Head(order)
             r == outcome[id]
         IN  TestAllLoopFirstOnly(Tail(order), outcome,
                         IF results = <<>>
                         THEN [m EXCEPT ![id] = ApplyTestResult(m[id], r)] ELSE m,
                         Append(results, PushedResult(m[id], r)))

\* Pool::test_all, the loop over the map in iteration order `order`;
\* outcome[id] is what test_proxy returned for the entry.
RECURSIVE TestAllLoop(_, _, _, _)
TestAllLoop(order, outcome, m, results) ==
    IF order = <<>> THEN [map |-> m, results |-> results]
    ELSE LET id == Head(order)
             r == outcome[id]
         IN  TestAllLoop(Tail(order), outcome,
                         [m EXCEPT ![id] = ApplyTestResult(m[id], r)],
                         Append(results, PushedResult(m[id], r)))

TestAll ==
    \E order \in Orders(DOMAIN proxies) :
      \E elapsed \in [DOMAIN proxies -> Latencies] :
        /\ LET outcome == [i \in DOMAIN proxies |-> test_proxy(proxies[i], elapsed[i])]
               out == TestAllLoop(order, outcome, proxies, <<>>)
           IN  /\ proxies' = out.map
               /\ ret' = [kind |-> "Results", results |-> out.results]
               /\ op' = [name |-> "test_all"]
        /\ UNCHANGED max_size
        /\ NotPool

\* Pool::test_all over every value test_proxy's return type has: the match
\* arms of the loop, whatever tester stands behind them.
TestAllAnyResult ==
    \E order \in Orders(DOMAIN proxies) :
      \E pick \in [DOMAIN proxies ->
                      ({"success"} \X Latencies) \cup ({"failure", "error"} \X {1})] :
        /\ LET outcome == [i \in DOMAIN proxies |->
                              TestResultOf(proxies[i], pick[i][1], pick[i][2])]
               out == TestAllLoop(order, outcome, proxies, <<>>)
           IN  /\ proxies' = out.map
               /\ ret' = [kind |-> "Results", results |-> out.results]
               /\ op' = [name |-> "test_all"]
        /\ UNCHANGED max_size
        /\ NotPool

\* A retry loop that takes every Ok result for a success.
RECURSIVE RetryLoopIgnoresSuccess(_, _, _, _)
RetryLoopIgnoresSuccess(failed, outcome, m, any_updated) ==
    IF failed = <<>> THEN [map |-> m, any_updated |-> any_updated]
    ELSE LET id == Head(failed)
             r == outcome[id]
         IN  IF r.kind = "Ok"
             THEN RetryLoopIgnoresSuccess(Tail(failed), outcome,
                            [m EXCEPT ![id] =
                                update_status_and_latency(m[id], "Available", r.latency)],
                            TRUE)
             ELSE RetryLoopIgnoresSuccess(Tail(failed), outcome, m, any_updated)

\* Pool::retry_connections, the loop over the ids collected as Failed;
\* outcome[id] is what test_proxy returned for the entry.
RECURSIVE RetryLoop(_, _, _, _)
RetryLoop(failed, outcome, m, any_updated) ==
    IF failed = <<>> THEN [map |-> m, any_updated |-> any_updated]
    ELSE LET id == Head(failed)
             r == outcome[id]
         IN  IF r.kind = "Ok" /\ r.success
             THEN RetryLoop(Tail(failed), outcome,
                            [m EXCEPT ![id] =
                                update_status_and_latency(m[id], "Available", r.latency)],
                            TRUE)
             ELSE RetryLoop(Tail(failed), outcome, m, any_updated)

\* The ids retry_connections collects before its loop
FailedIds(m) == {i \in DOMAIN m : m[i].status = "Failed"}

RetryConnections ==
    \E failed \in Orders(FailedIds(proxies)) :
      \E elapsed \in [FailedIds(proxies) -> Latencies] :
        /\ LET outcome == [i \in FailedIds(proxies) |->
                              test_proxy(proxies[i], elapsed[i])]
               out == RetryLoop(failed, outcome, proxies, FALSE)
           IN  /\ proxies' = out.map
               /\ ret' = [kind |-> "Bool", value |-> out.any_updated]
               /\ op' = [name |-> "retry_connections"]
        /\ UNCHANGED max_size
        /\ NotPool

\* Pool::retry_connections over every value test_proxy's return type has.
\* outcome[id] is what the tester answers for entry id when it is asked; the
\* loop asks for the collected ids only.  op records the answers.
RetryConnectionsAnyResult ==
    \E failed \in Orders(FailedIds(proxies)) :
      \E pick \in [DOMAIN proxies ->
                      ({"success"} \X Latencies) \cup ({"failure", "error"} \X {1})] :
        /\ LET outcome == [i \in DOMAIN proxies |->
                              TestResultOf(proxies[i], pick[i][1], pick[i][2])]
               out == RetryLoop(failed, outcome, proxies, FALSE)
           IN  /\ proxies' = out.map
               /\ ret' = [kind |-> "Bool", value |-> out.any_updated]
               /\ op' = [name |-> "retry_connections", outcome |-> outcome]
        /\ UNCHANGED max_size
        /\ NotPool

EmptyMap == [x \in {} |-> x]

PoolInit ==
    /\ proxies = EmptyMap
    /\ max_size \in 0..MaxCap
    /\ op = [name |-> "new"]
    /\ ret = [kind |-> "Pool"]

PoolNext ==
    \/ \E id \in Ids : \E p \in AddInputs(id) : Add(p)
    \/ GetAvailable
    \/ TestAll
    \/ RetryConnections

(***************************************************************************)
(* ProxyPool (crates/lokipool-core/src/proxy_pool.rs)                      *)
(***************************************************************************)
NumAddrs == 2       \* upstream addresses (host:port lines) that occur
MaxRetry == 2       \* retry_times ranges over 0..MaxRetry
MaxTasks == 1       \* health-check tasks spawned at most
MaxLoads == 2       \* successful calls of load_from_file on one ProxyPool
MaxCalls == 5       \* next_proxy calls recorded between two list changes

Addrs == 1..NumAddrs

\* A line of the proxy file after trim(): Some(address), or None for an
\* empty line.
Blank == None
FileLines == {Some(a) : a \in Addrs} \cup {Blank}

RECURSIVE SeqsUpTo(_, _)
SeqsUpTo(S, n) ==
    IF n = 0 THEN {<<>>}
    ELSE LET shorter == SeqsUpTo(S, n - 1)
         IN  shorter \cup {Append(q, x) : q \in shorter, x \in S}

\* Contents a proxy file can have (one more line than there are addresses,
\* so that a duplicate or a blank line occurs next to every address).
FileContents == SeqsUpTo(FileLines, NumAddrs + 1)

\* load_from_file, the read loop: the HashSet of trimmed non-empty lines
ReadLines(lines) == UNION ({lines[k] : k \in 1..Len(lines)} \ {Blank})

\* The HashSets load_from_file can end up with
LoadSets == {ReadLines(lines) : lines \in FileContents}

\* Vec::sort_by(|a, b| a.latency.cmp(&b.latency)): a stable sort by latency
RECURSIVE InsertByLatency(_, _)
InsertByLatency(sorted, e) ==
    IF sorted = <<>> THEN <<e>>
    ELSE IF sorted[Len(sorted)].latency <= e.latency
         THEN Append(sorted, e)
         ELSE Append(InsertByLatency(SubSeq(sorted, 1, Len(sorted) - 1), e),
                     sorted[Len(sorted)])

RECURSIVE SortInto(_, _)
SortInto(list, acc) ==
    IF list = <<>> THEN acc
    ELSE SortInto(Tail(list), InsertByLatency(acc, Head(list)))

\* A sort that leaves the list in the order it found it.
LeaveOrder(list) == list

sort_by_latency(list) == SortInto(list, <<>>)

\* valid_proxies.iter().map(|p| p.address.clone()).collect()
AddressesOf(list) == [k \in 1..Len(list) |-> list[k].address]

\* Vec::remove(i), i counted from 0
RemoveAt(list, i) ==
    [k \in 1..(Len(list) - 1) |-> IF k <= i THEN list[k] ELSE list[k + 1]]

\* What a probe yields: Some(latency) for Ok, None for an error or a timeout.
ProbeResults == {Some(l) : l \in Latencies} \cup {None}

\* Option::unwrap
Unwrap(o) == CHOOSE x \in o : TRUE

\* load_from_file, the loop over the awaited test futures in the order the
\* HashSet was iterated: valid entries are pushed with fail_count 0.
RECURSIVE ValidProxies(_, _, _)
ValidProxies(order, outcome, acc) ==
    IF order = <<>> THEN acc
    ELSE LET a == Head(order)
         IN  IF outcome[a] = None
             THEN ValidProxies(Tail(order), outcome, acc)
             ELSE ValidProxies(Tail(order), outcome,
                      Append(acc, [address |-> a, latency |-> Unwrap(outcome[a]),
                                   fail_count |-> 0]))

\* load_from_file when File::open or a line read fails: nothing is touched.
LoadOpenFails ==
    /\ hc_pc = "sleep"
    /\ pp_op' = None
    /\ UNCHANGED <<pp_proxies, current_index, retry_times, proxy_file, hc_tasks,
                   hc_pc, hc_i, consec>>
    /\ UNCHANGED calls
    /\ NotProxyPool

\* start_health_check: one more task is spawned, each call.
start_health_check(n) == n + 1

\* load_from_file up to the sort: the sorted valid_proxies it can arrive at,
\* over the file contents, the HashSet's iteration orders and the probe
\* results.
LoadResults ==
    UNION {UNION {{sort_by_latency(ValidProxies(order, outcome, <<>>))
                      : outcome \in [set -> ProbeResults]}
                  : order \in Orders(set)}
           : set \in LoadSets}

\* load_from_file from the sort on: take the write lock, replace the list,
\* rewrite the file (which may fail), start the health check.
Load(valid_proxies, write_ok) ==
    /\ hc_pc = "sleep"
    /\ hc_tasks < MaxTasks
    /\ pp_proxies' = valid_proxies
    /\ consec' = [a \in Addrs |-> 0]
    /\ IF write_ok
       THEN /\ proxy_file' = AddressesOf(valid_proxies)
            /\ hc_tasks' = start_health_check(hc_tasks)
       ELSE UNCHANGED <<proxy_file, hc_tasks>>
    /\ pp_op' = None
    /\ UNCHANGED <<current_index, retry_times, hc_pc, hc_i>>
    /\ UNCHANGED calls
    /\ NotProxyPool

\* The health-check task wakes from its sleep and takes the write lock.
HcBegin ==
    /\ hc_tasks >= 1
    /\ hc_pc = "sleep"
    /\ hc_pc' = "cycle"
    /\ hc_i' = 0
    /\ pp_op' = None
    /\ UNCHANGED <<pp_proxies, current_index, retry_times, proxy_file, hc_tasks,
                   consec>>
    /\ UNCHANGED calls
    /\ NotProxyPool

\* An eviction test that waits for one failure more.
EvictLate(fail_count, max) == fail_count > max

\* The eviction test of the health-check loop
Evict(fail_count, max) == fail_count >= max

\* A loop body that forgets to reset fail_count on a successful probe.
HcBodyKeepsCount(list, i, res, max) ==
    IF res # None
    THEN [list |-> [list EXCEPT ![i + 1].latency = Unwrap(res)], i |-> i + 1]
    ELSE LET bumped == [list EXCEPT ![i + 1].fail_count = @ + 1]
         IN  IF Evict(bumped[i + 1].fail_count, max)
             THEN [list |-> RemoveAt(bumped, i), i |-> i]
             ELSE [list |-> bumped, i |-> i + 1]

\* A loop body that steps past the entry that moved into the place of a
\* removed one.
HcBodySkipsNext(list, i, res, max) ==
    IF res # None
    THEN [list |-> [list EXCEPT ![i + 1].latency = Unwrap(res),
                                ![i + 1].fail_count = 0],
          i |-> i + 1]
    ELSE LET bumped == [list EXCEPT ![i + 1].fail_count = @ + 1]
         IN  IF Evict(bumped[i + 1].fail_count, max)
             THEN [list |-> RemoveAt(bumped, i), i |-> i + 1]
             ELSE [list |-> bumped, i |-> i + 1]

\* The health-check loop body on proxies[i] for probe result `res`
\* (Some(latency) for Ok, None for Err).
HcBody(list, i, res, max) ==
    IF res # None
    THEN [list |-> [list EXCEPT ![i + 1].latency = Unwrap(res),
                                ![i + 1].fail_count = 0],
          i |-> i + 1]
    ELSE LET bumped == [list EXCEPT ![i + 1].fail_count = @ + 1]
         IN  IF Evict(bumped[i + 1].fail_count, max)
             THEN [list |-> RemoveAt(bumped, i), i |-> i]
             ELSE [list |-> bumped, i |-> i + 1]

HcProbe(res) ==
    /\ hc_pc = "cycle"
    /\ hc_i < Len(pp_proxies)
    /\ LET addr == pp_proxies[hc_i + 1].address
           out == HcBody(pp_proxies, hc_i, res, retry_times)
       IN  /\ pp_proxies' = out.list
           /\ hc_i' = out.i
           /\ consec' = [consec EXCEPT ![addr] =
                             IF res = None /\ out.i > hc_i THEN @ + 1 ELSE 0]
           /\ pp_op' = Some(res)
    /\ UNCHANGED <<current_index, retry_times, proxy_file, hc_tasks, hc_pc>>
    /\ UNCHANGED calls
    /\ NotProxyPool

\* The end of a health-check cycle: sort, rewrite the file unless the list
\* is empty, release the lock, sleep.  (A failed write is only reported and
\* leaves the file as it was; the write is taken to succeed here.)
HcEnd ==
    /\ hc_pc = "cycle"
    /\ hc_i >= Len(pp_proxies)
    /\ pp_proxies' = sort_by_latency(pp_proxies)
    /\ proxy_file' = IF pp_proxies # <<>>
                     THEN AddressesOf(sort_by_latency(pp_proxies))
                     ELSE proxy_file
    /\ hc_pc' = "sleep"
    /\ pp_op' = None
    /\ UNCHANGED <<current_index, retry_times, hc_tasks, hc_i, consec>>
    /\ UNCHANGED calls
    /\ NotProxyPool

\* A cursor update that wraps one position past the end of the list.
NextIndexOffByOne(index, len) == (index + 1) % (len + 1)

\* next_proxy, the cursor update
NextIndex(index, len) == (index + 1) % len

\* Vec::get(index).cloned()
GetEntry(list, index) == IF index < Len(list) THEN Some(list[index + 1]) ELSE None

\* next_proxy: the new cursor and the returned entry
next_proxy(list, index) ==
    IF list = <<>>
    THEN [index |-> index, value |-> None]
    ELSE [index |-> NextIndex(index, Len(list)),
          value |-> GetEntry(list, NextIndex(index, Len(list)))]

\* next_proxy takes the cursor's write lock and the list's read lock.
NextProxy ==
    /\ hc_pc = "sleep"
    /\ current_index' = next_proxy(pp_proxies, current_index).index
    /\ pp_op' = None
    /\ UNCHANGED <<pp_proxies, retry_times, proxy_file, hc_tasks, hc_pc, hc_i, consec>>
    /\ NotProxyPool

\* get_current_proxy takes the list's read lock, then the cursor's.
GetCurrentProxy ==
    /\ hc_pc = "sleep"
    /\ pp_op' = None
    /\ UNCHANGED <<pp_proxies, current_index, retry_times, proxy_file, hc_tasks,
                   hc_pc, hc_i, consec>>
    /\ UNCHANGED calls
    /\ NotProxyPool

\* ProxyPool::new
ProxyPoolInit ==
    /\ pp_proxies = <<>>
    /\ current_index = 0
    /\ retry_times \in 0..MaxRetry
    /\ proxy_file \in {<<>>}
    /\ hc_tasks = 0
    /\ hc_pc = "sleep"
    /\ hc_i = 0
    /\ pp_op = None
    /\ calls = <<>>
    /\ consec = [a \in Addrs |-> 0]

\* load_from_file and the health-check tasks it starts
ProxyPoolNext ==
    \/ LoadOpenFails
    \/ \E valid_proxies \in LoadResults : \E write_ok \in BOOLEAN :
            Load(valid_proxies, write_ok)
    \/ HcBegin
    \/ \E res \in ProbeResults : HcProbe(res)
    \/ HcEnd

(***************************************************************************)
(* main: setup_proxy_pool (src/main.rs)                                    *)
(***************************************************************************)
\* Pool::new_with_proxies: add a Proxy::new per configured proxy, ignoring
\* the result of add.
RECURSIVE new_with_proxies(_, _, _)
new_with_proxies(ids, m, max) ==
    IF ids = <<>> THEN m
    ELSE new_with_proxies(Tail(ids),
                          IF AddFull(m, max) THEN m
                          ELSE MapInsert(m, Head(ids), ProxyNew(Head(ids))),
                          max)

\* The ids 1..n as the configured list
IdList(n) == [k \in 1..n |-> k]

\* setup_proxy_pool: n >= 1 proxies (the configured ones, or the local
\* example proxy when none is configured), then test_all.
setup_proxy_pool(n, max, order, elapsed) ==
    LET m == new_with_proxies(IdList(n), EmptyMap, max)
        outcome == [i \in DOMAIN m |-> test_proxy(m[i], elapsed[i])]
    IN  TestAllLoop(order, outcome, m, <<>>)

(***************************************************************************)
(* SocksServer::handle_connection (src/socks_server.rs), one session       *)
(***************************************************************************)
NotSession == UNCHANGED <<poolVars, ppVars, shutVars, concVars, cliVars, lockVars>>

\* Bytes as they arrive: a good value and a bad one for each field.
VerBytes == {5, 4}
CmdBytes == {1, 2}
AtypBytes == {1, 3, 4, 0}
MethodBytes == {0, 2}
RepBytes == {0, 1}

\* The frames the session writes
MethodReply == [kind |-> "method", bytes |-> <<5, 0>>]
SuccessReply == [kind |-> "reply", bytes |-> <<5, 0, 0, 1>>]
UpstreamGreeting == [kind |-> "greeting", bytes |-> <<5, 1, 0>>]
UpstreamRequest(atyp) == [kind |-> "request", bytes |-> <<5, 1, 0, atyp>>]

\* return Err(..) / the ? operator: the session ends where it stands
Fail ==
    /\ s_result' = "err"
    /\ UNCHANGED <<s_pc, s_req, s_proxy, client_out, upstream_out, s_up>>

\* An address type check that lets every type through.
AddressAny(atyp) == TRUE

\* The address types handle_connection can read
AddressSupported(atyp) == atyp \in {1, 3, 4}

\* An upstream reply check that accepts every reply code.
UpstreamRefusedNever(rep) == FALSE

\* The check of the upstream's reply code
UpstreamRefused(rep) == rep # 0

\* 1. read the method selection; a read error ends the session with Ok(())
ReadMethodSelection(read_ok, ver) ==
    /\ s_pc = "greeting" /\ s_result = "running"
    /\ IF ~read_ok
       THEN /\ s_result' = "ok"
            /\ UNCHANGED <<s_pc, s_req, s_proxy, client_out, upstream_out, s_up>>
       ELSE IF ver # 5
       THEN Fail
       ELSE /\ s_req' = Some([greeting |-> ver])
            /\ s_pc' = "methods"
            /\ UNCHANGED <<s_proxy, client_out, upstream_out, s_up, s_result>>
    /\ NotSession

\* 1. read the methods, answer "no authentication"
ReadMethods(read_ok, write_ok) ==
    /\ s_pc = "methods" /\ s_result = "running"
    /\ IF ~read_ok \/ ~write_ok
       THEN Fail
       ELSE /\ client_out' = Append(client_out, MethodReply)
            /\ s_pc' = "request"
            /\ UNCHANGED <<s_req, s_proxy, upstream_out, s_up, s_result>>
    /\ NotSession

\* 2. read VER CMD RSV ATYP
ReadRequest(read_ok, ver, cmd, rsv, atyp) ==
    /\ s_pc = "request" /\ s_result = "running"
    /\ IF ~read_ok \/ ver # 5 \/ cmd # 1
       THEN Fail
       ELSE /\ s_req' = Some([greeting |-> Unwrap(s_req).greeting, ver |-> ver,
                             cmd |-> cmd, rsv |-> rsv, atyp |-> atyp])
            /\ s_pc' = "address"
            /\ UNCHANGED <<s_proxy, client_out, upstream_out, s_up, s_result>>
    /\ NotSession

\* 3. and 4. read the target address (decode_ok: a domain that is UTF-8) and
\* the port
ReadTarget(addr_ok, decode_ok, port_ok) ==
    /\ s_pc = "address" /\ s_result = "running"
    /\ LET atyp == Unwrap(s_req).atyp
       IN  IF ~AddressSupported(atyp) \/ ~addr_ok \/ (atyp = 3 /\ ~decode_ok) \/ ~port_ok
           THEN Fail
           ELSE /\ s_pc' = "pick"
                /\ UNCHANGED <<s_req, s_proxy, client_out, upstream_out, s_up, s_result>>
    /\ NotSession

\* 5. pool.get_available()
Pick ==
    /\ s_pc = "pick" /\ s_result = "running"
    /\ \E order \in Orders(DOMAIN proxies) :
         LET found == get_available(proxies, order)
         IN  IF found = None
             THEN Fail
             ELSE /\ s_proxy' = found
                  /\ s_pc' = "connect"
                  /\ UNCHANGED <<s_req, client_out, upstream_out, s_up, s_result>>
    /\ NotSession

\* A dial that marks the chosen upstream Failed in the pool when it fails.
ConnectMarksFailed(connect_ok) ==
    /\ s_pc = "connect" /\ s_result = "running"
    /\ IF ~connect_ok
       THEN /\ Fail
            /\ proxies' = [proxies EXCEPT ![Unwrap(s_proxy).id] =
                               update_status(@, "Failed")]
       ELSE /\ s_pc' = "up_greeting"
            /\ UNCHANGED <<s_req, s_proxy, client_out, upstream_out, s_up, s_result>>
            /\ UNCHANGED proxies
    /\ UNCHANGED <<max_size, op, ret, ppVars, shutVars, concVars, cliVars, lockVars>>

\* 6. TcpStream::connect to the chosen upstream
Connect(connect_ok) ==
    /\ s_pc = "connect" /\ s_result = "running"
    /\ IF ~connect_ok
       THEN Fail
       ELSE /\ s_pc' = "up_greeting"
            /\ UNCHANGED <<s_req, s_proxy, client_out, upstream_out, s_up, s_result>>
    /\ NotSession

\* 7. greet the upstream and read its method selection
UpGreeting(write_ok, read_ok, ver, method) ==
    /\ s_pc = "up_greeting" /\ s_result = "running"
    /\ IF ~write_ok
       THEN Fail
       ELSE IF ~read_ok
       THEN /\ upstream_out' = Append(upstream_out, UpstreamGreeting)
            /\ s_result' = "err"
            /\ UNCHANGED <<s_pc, s_req, s_proxy, client_out, s_up>>
       ELSE /\ upstream_out' = Append(upstream_out, UpstreamGreeting)
            /\ s_up' = Some([method |-> method, rep |-> None, atyp |-> None,
                              bound |-> FALSE])
            /\ IF ver # 5 \/ method # 0
               THEN /\ s_result' = "err"
                    /\ UNCHANGED s_pc
               ELSE /\ s_pc' = "up_request"
                    /\ UNCHANGED s_result
            /\ UNCHANGED <<s_req, s_proxy, client_out>>
    /\ NotSession

\* 8. forward the request to the upstream
UpRequest(write_ok) ==
    /\ s_pc = "up_request" /\ s_result = "running"
    /\ LET atyp == Unwrap(s_req).atyp
       IN  IF ~AddressSupported(atyp) \/ ~write_ok
           THEN Fail
           ELSE /\ upstream_out' = Append(upstream_out, UpstreamRequest(atyp))
                /\ s_pc' = "up_reply"
                /\ UNCHANGED <<s_req, s_proxy, client_out, s_up, s_result>>
    /\ NotSession

\* 9. read VER REP RSV ATYP of the upstream's reply
UpReply(read_ok, rep, atyp) ==
    /\ s_pc = "up_reply" /\ s_result = "running"
    /\ IF ~read_ok
       THEN Fail
       ELSE /\ s_up' = Some([Unwrap(s_up) EXCEPT !.rep = Some(rep), !.atyp = Some(atyp)])
            /\ IF UpstreamRefused(rep)
               THEN /\ s_result' = "err"
                    /\ UNCHANGED s_pc
               ELSE /\ s_pc' = "up_bound"
                    /\ UNCHANGED s_result
            /\ UNCHANGED <<s_req, s_proxy, client_out, upstream_out>>
    /\ NotSession

\* 10. consume the bound address and port of the upstream's reply
UpBound(addr_ok, port_ok) ==
    /\ s_pc = "up_bound" /\ s_result = "running"
    /\ LET atyp == Unwrap(Unwrap(s_up).atyp)
       IN  IF ~AddressSupported(atyp) \/ ~addr_ok \/ ~port_ok
           THEN Fail
           ELSE /\ s_up' = Some([Unwrap(s_up) EXCEPT !.bound = TRUE])
                /\ s_pc' = "reply"
                /\ UNCHANGED <<s_req, s_proxy, client_out, upstream_out, s_result>>
    /\ NotSession

\* 11. write the success reply to the client
Reply(write_ok) ==
    /\ s_pc = "reply" /\ s_result = "running"
    /\ IF ~write_ok
       THEN Fail
       ELSE /\ client_out' = Append(client_out, SuccessReply)
            /\ s_pc' = "relay"
            /\ UNCHANGED <<s_req, s_proxy, upstream_out, s_up, s_result>>
    /\ NotSession

\* 12. relay until one direction ends, with or without an error; Ok(())
Relay ==
    /\ s_pc = "relay" /\ s_result = "running"
    /\ s_result' = "ok"
    /\ UNCHANGED <<s_pc, s_req, s_proxy, client_out, upstream_out, s_up>>
    /\ NotSession

SessionInit ==
    /\ s_pc = "greeting"
    /\ s_req = None
    /\ s_proxy = None
    /\ client_out = <<>>
    /\ upstream_out = <<>>
    /\ s_up = None
    /\ s_result = "running"

SessionNext ==
    \/ \E read_ok \in BOOLEAN : \E ver \in VerBytes : ReadMethodSelection(read_ok, ver)
    \/ \E read_ok \in BOOLEAN : \E write_ok \in BOOLEAN : ReadMethods(read_ok, write_ok)
    \/ \E read_ok \in BOOLEAN : \E ver \in VerBytes : \E cmd \in CmdBytes :
         \E rsv \in {0, 1} : \E atyp \in AtypBytes :
            ReadRequest(read_ok, ver, cmd, rsv, atyp)
    \/ \E addr_ok \in BOOLEAN : \E decode_ok \in BOOLEAN : \E port_ok \in BOOLEAN :
            ReadTarget(addr_ok, decode_ok, port_ok)
    \/ Pick
    \/ \E connect_ok \in BOOLEAN : Connect(connect_ok)
    \/ \E write_ok \in BOOLEAN : \E read_ok \in BOOLEAN : \E ver \in VerBytes :
         \E method \in MethodBytes : UpGreeting(write_ok, read_ok, ver, method)
    \/ \E write_ok \in BOOLEAN : UpRequest(write_ok)
    \/ \E read_ok \in BOOLEAN : \E rep \in RepBytes : \E atyp \in AtypBytes :
            UpReply(read_ok, rep, atyp)
    \/ \E addr_ok \in BOOLEAN : \E port_ok \in BOOLEAN : UpBound(addr_ok, port_ok)
    \/ \E write_ok \in BOOLEAN : Reply(write_ok)
    \/ Relay

(***************************************************************************)
(* Shutdown: main (src/main.rs) and run_with_shutdown                      *)
(* (src/socks_server.rs) around the broadcast channel                      *)
(***************************************************************************)
MaxSessions == 2    \* connections accepted at most

NotShutdown == UNCHANGED <<poolVars, ppVars, sessVars, concVars, cliVars, lockVars>>

\* The live Receiver handles: the accept loop's until run_with_shutdown
\* returns, one per session task until the task ends.
Receivers ==
    (IF listener.pc # "done" THEN {0} ELSE {}) \cup
    {i \in 1..Len(sessions) : sessions[i].pc # "done"}

\* broadcast::Sender::send: the value is queued unless no Receiver is left.
send(n) == IF Receivers = {} THEN n ELSE n + 1

\* Receiver::resubscribe: the new Receiver starts at the tail of the queue.
resubscribe(n) == n

\* Receiver::recv of a Receiver at position pos: a queued value, or Closed
\* once every Sender is dropped, or not ready.
recv(pos) ==
    IF pos < sent THEN "Ok"
    ELSE IF senders = {} THEN "Closed"
    ELSE "Pending"

\* A select arm that matches only a received value.
ShutdownArmOkOnly(pos) == recv(pos) = "Ok"

\* The arm `_ = shutdown.recv()` of the two select! blocks: taken with
\* whatever recv returns.
ShutdownArm(pos) == recv(pos) # "Pending"

\* start_socks_server: the channel with its Sender and the accept loop's
\* Receiver; run_command_interface clones the Sender for the command task.
ShutdownInit ==
    /\ main_pc = "commands"
    /\ senders = {"shutdown_tx", "shutdown_tx_clone"}
    /\ sent = 0
    /\ listener = [pc |-> "bind", pos |-> 0, result |-> "running"]
    /\ sessions = <<>>
    /\ wait_result = None

\* run_with_shutdown: TcpListener::bind; an error returns from the function
Bind(bind_ok) ==
    /\ listener.pc = "bind"
    /\ listener' = [listener EXCEPT !.pc = IF bind_ok THEN "accept" ELSE "done",
                                    !.result = IF bind_ok THEN @ ELSE "Err"]
    /\ UNCHANGED <<main_pc, senders, sent, sessions, wait_result>>
    /\ NotShutdown

\* run_with_shutdown, the accept arm: spawn a session task with a
\* resubscribed Receiver
Accept ==
    /\ listener.pc = "accept"
    /\ Len(sessions) < MaxSessions
    /\ sessions' = Append(sessions,
                          [pc |-> "select", pos |-> resubscribe(sent), how |-> "running"])
    /\ UNCHANGED <<main_pc, senders, sent, listener, wait_result>>
    /\ NotShutdown

\* run_with_shutdown, the shutdown arm: break
ListenerShutdown ==
    /\ listener.pc = "accept"
    /\ ShutdownArm(listener.pos)
    /\ listener' = [listener EXCEPT !.pc = "done", !.result = "Ok"]
    /\ UNCHANGED <<main_pc, senders, sent, sessions, wait_result>>
    /\ NotShutdown

\* the session task, the arm of handle_connection returning
SessionHandled(i) ==
    /\ i \in 1..Len(sessions)
    /\ sessions[i].pc = "select"
    /\ sessions' = [sessions EXCEPT ![i] = [@ EXCEPT !.pc = "done", !.how = "handled"]]
    /\ UNCHANGED <<main_pc, senders, sent, listener, wait_result>>
    /\ NotShutdown

\* the session task, the shutdown arm
SessionShutdown(i) ==
    /\ i \in 1..Len(sessions)
    /\ sessions[i].pc = "select"
    /\ ShutdownArm(sessions[i].pos)
    /\ sessions' = [sessions EXCEPT ![i] =
                        [@ EXCEPT !.pc = "done", !.how = recv(sessions[i].pos)]]
    /\ UNCHANGED <<main_pc, senders, sent, listener, wait_result>>
    /\ NotShutdown

\* process_command "quit" | "exit": shutdown_tx.send(()), result ignored
Quit ==
    /\ main_pc = "commands"
    /\ sent' = send(sent)
    /\ main_pc' = "quit"
    /\ UNCHANGED <<senders, listener, sessions, wait_result>>
    /\ NotShutdown

\* run_command_interface: the input task has stopped after quit, the command
\* task's loop ends and drops its Sender clone
CommandTaskEnds ==
    /\ main_pc = "quit"
    /\ senders' = senders \ {"shutdown_tx_clone"}
    /\ main_pc' = "joined"
    /\ UNCHANGED <<sent, listener, sessions, wait_result>>
    /\ NotShutdown

\* run_command_interface returns and drops its Sender
CommandInterfaceReturns ==
    /\ main_pc = "joined"
    /\ senders' = senders \ {"shutdown_tx"}
    /\ main_pc' = "wait"
    /\ UNCHANGED <<sent, listener, sessions, wait_result>>
    /\ NotShutdown

\* A wait that ends only when the accept loop's task has ended.
WaitEndsJoinOnly(timed_out, pc) == pc = "done"

\* timeout(shutdown_timeout, server_handle).await returns: the accept loop's
\* task has ended, or the 3 seconds have passed
WaitEnds(timed_out, pc) == timed_out \/ pc = "done"

\* timeout's result: Ok when the JoinHandle is ready when polled, Err(Elapsed)
\* otherwise
TimeoutResult(pc) == IF pc = "done" THEN "Ok" ELSE "Err"

\* wait_for_server_shutdown: wait for the accept loop's JoinHandle, three
\* seconds at most, log the outcome, return to main, which returns.
WaitForServerShutdown(timed_out) ==
    /\ main_pc = "wait"
    /\ WaitEnds(timed_out, listener.pc)
    /\ wait_result' = Some(TimeoutResult(listener.pc))
    /\ main_pc' = "exit"
    /\ UNCHANGED <<senders, sent, listener, sessions>>
    /\ NotShutdown

ShutdownNext ==
    \/ \E bind_ok \in BOOLEAN : Bind(bind_ok)
    \/ Accept
    \/ ListenerShutdown
    \/ \E i \in 1..MaxSessions : SessionHandled(i)
    \/ \E i \in 1..MaxSessions : SessionShutdown(i)
    \/ Quit
    \/ CommandTaskEnds
    \/ CommandInterfaceReturns
    \/ \E timed_out \in BOOLEAN : WaitForServerShutdown(timed_out)

\* The runtime polls every task that is ready to run.
ShutdownFairness ==
    /\ WF_vars(\E bind_ok \in BOOLEAN : Bind(bind_ok))
    /\ WF_vars(ListenerShutdown)
    /\ \A i \in 1..MaxSessions : WF_vars(SessionShutdown(i))
    /\ WF_vars(CommandTaskEnds)
    /\ WF_vars(CommandInterfaceReturns)

(***************************************************************************)
(* Specifications.  Each one runs one part of the program and keeps the    *)
(* variables of the other parts at their initial values.                   *)
(***************************************************************************)
SessionIdle ==
    /\ s_pc = "idle"
    /\ s_req = None
    /\ s_proxy = None
    /\ client_out = <<>>
    /\ upstream_out = <<>>
    /\ s_up = None
    /\ s_result = "running"

ShutdownIdle ==
    /\ main_pc = "idle"
    /\ senders = {}
    /\ sent = 0
    /\ listener = [pc |-> "idle", pos |-> 0, result |-> "running"]
    /\ sessions = <<>>
    /\ wait_result = None

\* No task has called into the ProxyPool; both of its locks are free.
LocksIdle ==
    /\ rwlocks = <<>>
    /\ tasks = <<>>

ConcurrentIdle ==
    /\ th = <<>>
    /\ mutex = {}
    /\ pool0 = <<>>
    /\ LocksIdle

CliIdle ==
    /\ shown = <<>>
    /\ now = 0

PoolIdle ==
    /\ proxies = EmptyMap
    /\ max_size = 0
    /\ op = [name |-> "new"]
    /\ ret = [kind |-> "Pool"]

ProxyPoolIdle ==
    /\ pp_proxies = <<>>
    /\ current_index = 0
    /\ retry_times = 0
    /\ proxy_file = <<>>
    /\ hc_tasks = 0
    /\ hc_pc = "sleep"
    /\ hc_i = 0
    /\ pp_op = None
    /\ calls = <<>>
    /\ consec = [a \in Addrs |-> 0]

Init ==
    /\ PoolInit /\ ProxyPoolIdle /\ SessionIdle /\ ShutdownIdle
    /\ ConcurrentIdle /\ CliIdle
Next == PoolNext
Spec == Init /\ [][Next]_vars

\* test_all on any pool that add and test_all can have built, with every
\* value the tester's return type has.
ProxyValues(id) ==
    AddInputs(id) \cup
    {update_status_and_latency(ProxyNew(id), "Available", Some(l)) : l \in Latencies}

PoolMaps(D) ==
    {m \in [D -> UNION {ProxyValues(i) : i \in D}] : \A i \in D : m[i].id = i}

InitTestAll ==
    /\ proxies \in UNION {PoolMaps(D) : D \in SUBSET Ids}
    /\ max_size = Cardinality(DOMAIN proxies)
    /\ op = [name |-> "new"]
    /\ ret = [kind |-> "Pool"]
    /\ ProxyPoolIdle /\ SessionIdle /\ ShutdownIdle
    /\ ConcurrentIdle /\ CliIdle

NextTestAll == TestAllAnyResult
SpecTestAll == InitTestAll /\ [][NextTestAll]_vars

\* One session against the pool that setup_proxy_pool built.
InitSession ==
    /\ \E n \in 1..NumIds : \E max \in 0..MaxCap :
         \E elapsed \in [Ids -> Latencies] :
           \E order \in Orders(DOMAIN new_with_proxies(IdList(n), EmptyMap, max)) :
             LET out == setup_proxy_pool(n, max, order, elapsed)
             IN  /\ proxies = out.map
                 /\ max_size = max
                 /\ op = [name |-> "test_all"]
                 /\ ret = [kind |-> "Results", results |-> out.results]
    /\ SessionInit
    /\ ProxyPoolIdle /\ ShutdownIdle
    /\ ConcurrentIdle /\ CliIdle

NextSession == SessionNext
SpecSession == InitSession /\ [][NextSession]_vars

\* main from the start of the command interface on, the accept loop and
\* the session tasks it spawns.
InitShutdown ==
    /\ ShutdownInit /\ PoolIdle /\ ProxyPoolIdle /\ SessionIdle
    /\ ConcurrentIdle /\ CliIdle
NextShutdown == ShutdownNext
SpecShutdown == InitShutdown /\ [][NextShutdown]_vars /\ ShutdownFairness

\* next_proxy called again and again on a list that nothing else modifies:
\* any list load_from_file can install, any cursor that a longer list left.
InitRotation ==
    /\ pp_proxies \in LoadResults
    /\ current_index \in 0..(NumAddrs - 1)
    /\ retry_times = 0
    /\ proxy_file = AddressesOf(pp_proxies)
    /\ hc_tasks = 1
    /\ hc_pc = "sleep"
    /\ hc_i = 0
    /\ pp_op = None
    /\ calls = <<>>
    /\ consec = [a \in Addrs |-> 0]
    /\ PoolIdle /\ SessionIdle /\ ShutdownIdle
    /\ ConcurrentIdle /\ CliIdle

NextRotation ==
    /\ Len(calls) < MaxCalls
    /\ NextProxy
    /\ calls' = Append(calls, next_proxy(pp_proxies, current_index).value)

SpecRotation == InitRotation /\ [][NextRotation]_vars

InitProxyPool ==
    /\ ProxyPoolInit /\ PoolIdle /\ SessionIdle /\ ShutdownIdle
    /\ ConcurrentIdle /\ CliIdle
NextProxyPool == ProxyPoolNext
SpecProxyPool == InitProxyPool /\ [][NextProxyPool]_vars

(***************************************************************************)
(* Claims about Pool                                                       *)
(***************************************************************************)
AvailableIn(m) == {i \in DOMAIN m : m[i].status = "Available"}

\* C1: whenever get_available has just returned, on any pool built by add,
\* test_all and retry_connections: it returned nothing exactly when no entry
\* is Available, and otherwise an Available entry of the pool whose latency
\* is less than or equal to the latency of every Available entry.
C1_GetAvailableMin ==
    op.name = "get_available" =>
        /\ (ret.value = None) <=> (AvailableIn(proxies) = {})
        /\ \A p \in ret.value :
              /\ p.id \in DOMAIN proxies /\ proxies[p.id] = p
              /\ p.status = "Available"
              /\ \A i \in AvailableIn(proxies) : p.latency <= proxies[i].latency

C1_Witness ==
    /\ op.name = "get_available"
    /\ \E p \in ret.value : \E i \in AvailableIn(proxies) :
          p.latency < proxies[i].latency

\* C3 as claimed: add returns an error exactly when inserting the entry
\* would make the pool hold more than max_size entries.
C3_AsClaimed ==
    [][op'.name = "add" =>
        ((ret'.kind = "Err") <=>
            (Cardinality(DOMAIN proxies \cup {op'.proxy.id}) > max_size))]_vars

\* C3: add returns an error exactly when the pool already holds max_size or
\* more entries, whether or not the id is present already; otherwise the
\* entry is stored under its id, replacing an entry with the same id, and
\* nothing else changes; on an error the map is unchanged.
C3_AddCapacity ==
    [][op'.name = "add" =>
        LET proxy == op'.proxy
        IN  /\ (ret'.kind = "Err") <=> (Cardinality(DOMAIN proxies) >= max_size)
            /\ ret'.kind = "Err" => proxies' = proxies
            /\ ret'.kind # "Err" =>
                  /\ DOMAIN proxies' = DOMAIN proxies \cup {proxy.id}
                  /\ proxies'[proxy.id] = proxy
                  /\ \A i \in DOMAIN proxies \ {proxy.id} : proxies'[i] = proxies[i]]_vars

\* add refused for an id the full pool already holds
C3_Witness ==
    /\ op.name = "add" /\ ret.kind = "Err"
    /\ op.proxy.id \in DOMAIN proxies
    /\ Cardinality(DOMAIN proxies) = max_size
    /\ proxies[op.proxy.id] # op.proxy

\* C4: test_all neither adds nor removes entries, and the list it returns
\* holds exactly one result for each entry of the pool.
C4_TestAllKeepsEntries ==
    [][op'.name = "test_all" =>
        /\ DOMAIN proxies' = DOMAIN proxies
        /\ Len(ret'.results) = Cardinality(DOMAIN proxies)
        /\ \A i \in DOMAIN proxies :
              Cardinality({k \in 1..Len(ret'.results) :
                              ret'.results[k].proxy_id = i}) = 1]_vars

C4_Witness ==
    /\ op.name = "test_all"
    /\ Len(ret.results) = 2
    /\ \E i \in DOMAIN proxies : proxies[i].last_latency # None

\* C5: after test_all, every entry whose probe succeeded is Available with
\* the result's latency, and every entry whose probe failed or errored is
\* Failed, whatever status the entry had before.
C5_TestAllApplies ==
    op.name = "test_all" =>
        /\ {ret.results[k].proxy_id : k \in 1..Len(ret.results)} = DOMAIN proxies
        /\ \A k \in 1..Len(ret.results) :
              LET r == ret.results[k]
                  p == proxies[r.proxy_id]
              IN  /\ r.success => (p.status = "Available" /\ r.latency = Some(p.latency))
                  /\ ~r.success => p.status = "Failed"

\* one call turned a measured (once Available) entry into Failed and left
\* another entry Available
C5_Witness ==
    /\ op.name = "test_all"
    /\ \E k \in 1..Len(ret.results) :
          /\ ~ret.results[k].success
          /\ proxies[ret.results[k].proxy_id].status = "Failed"
          /\ proxies[ret.results[k].proxy_id].last_latency # None
    /\ \E k \in 1..Len(ret.results) : ret.results[k].success

(***************************************************************************)
(* Claims about the session                                                *)
(***************************************************************************)
\* The reply frames the client has received, and the failures among them
Replies == SelectSeq(client_out, LAMBDA f : f.kind = "reply")
FailureReplies == SelectSeq(Replies, LAMBDA f : f.bytes[2] # 0)

NoProxyFailure == s_result = "err" /\ s_pc = "pick"
UpstreamFailure ==
    /\ s_result = "err"
    /\ \/ s_pc = "connect"
       \/ s_pc = "up_greeting" /\ s_up # None /\ Unwrap(s_up).method # 0
       \/ s_pc = "up_reply" /\ s_up # None /\ Unwrap(s_up).rep \notin {None, Some(0)}

\* C6: a session that failed after reading the request and before the relay
\* has sent the client exactly one failure reply: code 4 when the pool had no
\* Available entry, code 1 when the connect to the upstream failed or the
\* upstream answered with a non-zero method or a non-zero reply code.
C6_FailureReply ==
    /\ NoProxyFailure =>
          (Len(FailureReplies) = 1 /\ FailureReplies[1].bytes[2] = 4)
    /\ UpstreamFailure =>
          (Len(FailureReplies) = 1 /\ FailureReplies[1].bytes[2] = 1)

\* C7: the client gets at most one reply frame; a success reply is there
\* only when the upstream answered the request with reply code 0 and its
\* bound address and port were consumed, and a session that sent it does not
\* end with an error.
C7_SuccessReplyLast ==
    /\ Len(Replies) <= 1
    /\ \A k \in 1..Len(Replies) :
          Replies[k].bytes[2] = 0 =>
              /\ s_up # None
              /\ Unwrap(s_up).rep = Some(0)
              /\ Unwrap(s_up).bound
              /\ s_result # "err"
              /\ upstream_out = <<UpstreamGreeting, UpstreamRequest(Unwrap(s_req).atyp)>>

C7_Witness ==
    /\ s_result = "ok" /\ s_pc = "relay"
    /\ Replies = <<SuccessReply>>
    /\ client_out = <<MethodReply, SuccessReply>>

(***************************************************************************)
(* Claims about shutdown                                                   *)
(***************************************************************************)
AllStopped ==
    /\ listener.pc = "done"
    /\ \A i \in 1..Len(sessions) : sessions[i].pc = "done"

\* C8: once quit has sent the shutdown broadcast, the accept loop exits and
\* every session task it spawned, one accepted after the send included,
\* terminates.
C8_ShutdownReachesAll == (main_pc # "commands") ~> AllStopped

\* a session accepted after the send has ended through its shutdown arm
C8_Witness ==
    /\ sent = 1
    /\ listener.pc = "done"
    /\ \E i \in 1..Len(sessions) :
          /\ sessions[i].pos = 1
          /\ sessions[i].pc = "done"
          /\ sessions[i].how = "Closed"

(***************************************************************************)
(* Claims about ProxyPool                                                  *)
(***************************************************************************)
\* C2: on a list of K >= 1 entries that is not modified between calls, from
\* any starting cursor, next_proxy returns the entries in list order
\* cyclically: call i+K returns what call i returned, K consecutive calls
\* return K distinct entries, and for K = 1 every call returns the one entry.
C2_RoundRobin ==
    LET K == Len(pp_proxies)
        n == Len(calls)
    IN  K >= 1 =>
          /\ \E c \in 0..(K - 1) :
                \A i \in 1..n : calls[i] = Some(pp_proxies[((c + i - 1) % K) + 1])
          /\ \A i \in 1..n : i + K <= n => calls[i + K] = calls[i]
          /\ \A i \in 1..n : \A j \in 1..n : (i < j /\ j < i + K) => calls[i] # calls[j]
          /\ K = 1 => \A i \in 1..n : calls[i] = Some(pp_proxies[1])

\* Two full rounds over a two-entry list have been made.
C2_Witness == Len(pp_proxies) = 2 /\ Len(calls) >= 4

\* The entry a health-check probe step is about, before the step
ProbedEntry == pp_proxies[hc_i + 1]

\* Whether address a is in list
InList(list, a) == \E k \in 1..Len(list) : list[k].address = a

\* A health-check cycle ends in this step.
CycleEnds == hc_pc = "cycle" /\ hc_pc' = "sleep"

\* C9 as claimed: at the end of every health-check cycle every remaining
\* entry has fail_count < retry_times, whatever retry_times is.
C9_AsClaimed ==
    [][CycleEnds =>
         \A k \in 1..Len(pp_proxies') : pp_proxies'[k].fail_count < retry_times]_vars

\* C9, amended: at the end of every health-check cycle every remaining
\* entry has fail_count < retry_times, provided retry_times >= 1.
C9_FailCountBelowRetry ==
    [][(CycleEnds /\ retry_times >= 1) =>
         \A k \in 1..Len(pp_proxies') : pp_proxies'[k].fail_count < retry_times]_vars

\* Between two cycles an entry is one failure short of eviction.
C9_Witness ==
    /\ hc_pc = "sleep"
    /\ retry_times >= 2
    /\ \E k \in 1..Len(pp_proxies) : pp_proxies[k].fail_count = retry_times - 1

\* C10: a probe step removes the probed entry iff the probe failed and the
\* incremented fail_count has reached retry_times; fail_count counts the
\* failed probes in a row since the entry was loaded or last succeeded; a
\* failed probe that does not evict increments fail_count; a successful one
\* sets fail_count to 0, stores the latency and keeps the entry; no other
\* entry is touched.
C10_EvictionRule ==
    [][pp_op' # None =>
         LET e == ProbedEntry
             res == Unwrap(pp_op')
             failed == res = None
             removed == ~InList(pp_proxies', e.address)
             others(list) == SelectSeq(list, LAMBDA x : x.address # e.address)
         IN  /\ e.fail_count = consec[e.address]
             /\ removed <=> (failed /\ e.fail_count + 1 >= retry_times)
             /\ removed <=> (failed /\ consec[e.address] + 1 >= retry_times)
             /\ (removed /\ retry_times >= 1) => consec[e.address] + 1 = retry_times
             /\ (failed /\ ~removed) =>
                    pp_proxies'[hc_i + 1] = [e EXCEPT !.fail_count = e.fail_count + 1]
             /\ ~failed =>
                    pp_proxies'[hc_i + 1] =
                        [e EXCEPT !.fail_count = 0, !.latency = Unwrap(res)]
             /\ others(pp_proxies') = others(pp_proxies)]_vars

\* A second failure in a row has just evicted an entry.
C10_Witness ==
    /\ pp_op = Some(None)
    /\ retry_times = 2
    /\ Len(pp_proxies) < Len(proxy_file)

(***************************************************************************)
(* Claims about the persisted file and the cursor                          *)
(***************************************************************************)
\* list_proxies: a clone of the list
list_proxies(list) == list

\* C11: when a health-check cycle completes, the persisted file holds
\* exactly the addresses of the entries left in the pool, in ascending
\* order of latency; an entry evicted in the cycle is in neither, also when
\* it was the last one.
C11_FileMatchesPool ==
    [][CycleEnds =>
        /\ proxy_file' = AddressesOf(list_proxies(pp_proxies'))
        /\ \A k \in 1..(Len(pp_proxies') - 1) :
              pp_proxies'[k].latency <= pp_proxies'[k + 1].latency]_vars

\* get_current_proxy: proxies.get(index).cloned()
get_current_proxy(list, index) == GetEntry(list, index)

\* get_connection: dial the current entry, or Err when there is none (the
\* address parse and the connect can fail too; they are taken to succeed).
get_connection(list, index) ==
    IF get_current_proxy(list, index) # None
    THEN [kind |-> "Ok", address |-> Unwrap(get_current_proxy(list, index)).address]
    ELSE [kind |-> "Err"]

\* next_proxy called while load_from_file and the health check run
NextProxyCall == NextProxy /\ UNCHANGED calls

\* ProxyPool with its whole interface: loads, health-check cycles, next_proxy
\* and get_current_proxy in any interleaving the locks allow.
InitCursor == InitProxyPool
NextCursor == ProxyPoolNext \/ NextProxyCall \/ GetCurrentProxy
SpecCursor == InitCursor /\ [][NextCursor]_vars

\* C12: whenever the list is non-empty (and its lock is free), the cursor is
\* a valid index into it, so get_current_proxy finds an entry and
\* get_connection does not report an empty pool.
C12_CursorInRange ==
    (hc_pc = "sleep" /\ pp_proxies # <<>>) =>
        /\ current_index < Len(pp_proxies)
        /\ get_current_proxy(pp_proxies, current_index) # None
        /\ get_connection(pp_proxies, current_index).kind = "Ok"

(***************************************************************************)
(* Claims about ties, retries and concurrent calls on Pool                 *)
(***************************************************************************)
\* C14: when get_available has just returned an entry and other Available
\* entries share its latency, the returned entry is the one with the
\* smallest id among them.
C14_TieBreakSmallestId ==
    op.name = "get_available" =>
        \A p \in ret.value : \A i \in AvailableIn(proxies) :
            proxies[i].latency = p.latency => p.id <= i

\* retry_connections on any pool that add and test_all can have built, with
\* every value the tester's return type has.
InitRetry == InitTestAll
NextRetry == RetryConnectionsAnyResult
SpecRetry == InitRetry /\ [][NextRetry]_vars

\* A probe that succeeded
Succeeded(r) == r.kind = "Ok" /\ r.success

\* C15: a call of retry_connections leaves every entry that is not Failed
\* when the call starts as it was; an entry that is Failed becomes Available
\* when its probe succeeds and stays Failed, unchanged, when it does not;
\* the call returns true exactly when some entry went from Failed to
\* Available.
C15_RetryOnlyFailed ==
    [][op'.name = "retry_connections" =>
        /\ DOMAIN proxies' = DOMAIN proxies
        /\ \A i \in DOMAIN proxies \ FailedIds(proxies) : proxies'[i] = proxies[i]
        /\ \A i \in FailedIds(proxies) :
              IF Succeeded(op'.outcome[i])
              THEN /\ proxies'[i].status = "Available"
                   /\ Some(proxies'[i].latency) = op'.outcome[i].latency
              ELSE proxies'[i] = proxies[i]
        /\ ret'.value <=>
              \E i \in FailedIds(proxies) : proxies'[i].status = "Available"]_vars

\* one call revived an entry, left another Failed after a probe that did
\* not succeed, and returned true
C15_Witness ==
    /\ op.name = "retry_connections"
    /\ ret.value
    /\ \E i \in DOMAIN proxies :
          /\ proxies[i].status = "Failed"
          /\ ~Succeeded(op.outcome[i])
    /\ \E i \in DOMAIN proxies :
          /\ proxies[i].status = "Available"
          /\ Succeeded(op.outcome[i])
          /\ proxies[i].last_latency = op.outcome[i].latency

(***************************************************************************)
(* Claims about process exit                                               *)
(***************************************************************************)
\* The main task alone is taken to make progress: its two steps out of
\* run_command_interface, and the wait, whose timer fires after 3 seconds
\* whatever the other tasks do.  Nothing is assumed of the accept loop or
\* of the session tasks.
ExitFairness ==
    /\ WF_vars(CommandTaskEnds)
    /\ WF_vars(CommandInterfaceReturns)
    /\ WF_vars(\E timed_out \in BOOLEAN : WaitForServerShutdown(timed_out))

InitExit == InitShutdown
NextExit == ShutdownNext
SpecExit == InitExit /\ [][NextExit]_vars /\ ExitFairness

\* C16: once quit has been processed the main task eventually returns from
\* main, whether or not the accept loop or any session task has ended.
C16_QuitReachesExit == (main_pc = "quit") ~> (main_pc = "exit")

\* main has returned after the timeout, the accept loop and a session task
\* still running
C16_Witness ==
    /\ main_pc = "exit"
    /\ wait_result = Some("Err")
    /\ listener.pc # "done"
    /\ \E i \in 1..Len(sessions) : sessions[i].pc # "done"

\* C17: main returns only after every session task has ended or after the
\* timeout has fired.
C17_ExitAfterSessionsOrTimeout ==
    main_pc = "exit" =>
        \/ wait_result = Some("Err")
        \/ \A i \in 1..Len(sessions) : sessions[i].pc = "done"

(***************************************************************************)
(* Claims about what a session does to the pool                            *)
(***************************************************************************)
\* C18: no step of handle_connection, failing or not, changes the pool: the
\* set of entries, every entry's status and latency, and the capacity stay
\* as they were.
C18_SessionKeepsPool ==
    [][proxies' = proxies /\ max_size' = max_size]_vars

\* a session has ended in error at the dial, or has reached the relay, and
\* the upstream it picked is in the pool as it was picked
C18_Witness ==
    /\ \/ s_result = "err" /\ s_pc = "connect"
       \/ s_result = "ok"
    /\ s_proxy # None
    /\ Unwrap(s_proxy).id \in DOMAIN proxies
    /\ proxies[Unwrap(s_proxy).id] = Unwrap(s_proxy)
    /\ Unwrap(s_proxy).status = "Available"

(***************************************************************************)
(* Claims about eviction and selection                                     *)
(***************************************************************************)
\* The host:port of the upstream a Pool entry was configured with.  The
\* upstreams are numbered alike in both pools: entry i of the Pool and
\* address i of the ProxyPool are the same upstream.
ProxyAddress(p) == p.id

\* The addresses in a ProxyPool list
AddressSet(list) == {list[k].address : k \in 1..Len(list)}

\* The two pools over the same upstreams: the Pool that setup_proxy_pool
\* built and hands to the SOCKS server, and a ProxyPool that has loaded the
\* same upstreams and runs its health check; a session that has read an
\* IPv4 CONNECT request and is about to pick its upstream.
InitEvictSelect ==
    /\ \E n \in 1..NumIds : \E max \in 0..MaxCap :
         \E elapsed \in [Ids -> Latencies] :
           \E order \in Orders(DOMAIN new_with_proxies(IdList(n), EmptyMap, max)) :
             LET out == setup_proxy_pool(n, max, order, elapsed)
             IN  /\ proxies = out.map
                 /\ max_size = max
                 /\ op = [name |-> "test_all"]
                 /\ ret = [kind |-> "Results", results |-> out.results]
    /\ pp_proxies \in {l \in LoadResults :
                          /\ AddressSet(l) = {ProxyAddress(proxies[i]) : i \in DOMAIN proxies}
                          /\ Len(l) = Cardinality(DOMAIN proxies)}
    /\ current_index = 0
    /\ retry_times \in 0..MaxRetry
    /\ proxy_file = AddressesOf(pp_proxies)
    /\ hc_tasks = start_health_check(0)
    /\ hc_pc = "sleep"
    /\ hc_i = 0
    /\ pp_op = None
    /\ calls = <<>>
    /\ consec = [a \in Addrs |-> 0]
    /\ s_pc = "pick"
    /\ s_req = Some([greeting |-> 5, ver |-> 5, cmd |-> 1, rsv |-> 0, atyp |-> 1])
    /\ s_proxy = None
    /\ client_out = <<MethodReply>>
    /\ upstream_out = <<>>
    /\ s_up = None
    /\ s_result = "running"
    /\ ShutdownIdle /\ ConcurrentIdle /\ CliIdle

NextEvictSelect ==
    \/ HcBegin
    \/ \E res \in ProbeResults : HcProbe(res)
    \/ HcEnd
    \/ Pick
    \/ \E connect_ok \in BOOLEAN : Connect(connect_ok)

SpecEvictSelect == InitEvictSelect /\ [][NextEvictSelect]_vars

\* C19: the upstream a session picks is one that is still in the
\* health-checked list: an upstream the health check has evicted is not
\* picked.
C19_EvictedNeverPicked ==
    [][(s_pc = "pick" /\ s_pc' = "connect") =>
          InList(pp_proxies, ProxyAddress(Unwrap(s_proxy')))]_vars

(***************************************************************************)
(* The command interface: show (src/main.rs process_command)               *)
(***************************************************************************)
MaxShows == 3       \* show commands recorded

NotCli == UNCHANGED <<poolVars, ppVars, sessVars, shutVars, concVars, lockVars>>

\* Time passes between two commands: one switch interval.
Tick ==
    /\ now < 2 * MaxShows
    /\ now' = now + 1
    /\ UNCHANGED shown
    /\ NotCli

\* process_command "show": lock the pool, print what get_available returns.
Show ==
    /\ Len(shown) < MaxShows
    /\ \E order \in Orders(DOMAIN proxies) :
         shown' = Append(shown, [value |-> get_available(proxies, order), at |-> now])
    /\ UNCHANGED now
    /\ NotCli

\* The command interface over the pool that setup_proxy_pool built
InitShow ==
    /\ \E n \in 1..NumIds : \E max \in 0..MaxCap :
         \E elapsed \in [Ids -> Latencies] :
           \E order \in Orders(DOMAIN new_with_proxies(IdList(n), EmptyMap, max)) :
             LET out == setup_proxy_pool(n, max, order, elapsed)
             IN  /\ proxies = out.map
                 /\ max_size = max
                 /\ op = [name |-> "test_all"]
                 /\ ret = [kind |-> "Results", results |-> out.results]
    /\ shown = <<>>
    /\ now = 0
    /\ ProxyPoolIdle /\ SessionIdle /\ ShutdownIdle /\ ConcurrentIdle

NextShow == Tick \/ Show
SpecShow == InitShow /\ [][NextShow]_vars

\* C20: with two Available entries, two successive show commands more than
\* one switch interval apart report different entries, so the reports go
\* A, B, A, B.
C20_ShowAlternates ==
    Cardinality(AvailableIn(proxies)) = 2 =>
        /\ \A k \in 1..(Len(shown) - 1) :
              shown[k + 1].at - shown[k].at >= 2 =>
                  shown[k + 1].value # shown[k].value
        /\ \A k \in 1..(Len(shown) - 2) :
              (shown[k + 1].at - shown[k].at >= 2 /\ shown[k + 2].at - shown[k + 1].at >= 2)
                  => shown[k + 2].value = shown[k].value

(***************************************************************************)
(* Threads calling into one shared Pool (crates/lokipool-core/src/pool.rs: *)
(* every method locks self.proxies for its whole body)                     *)
(***************************************************************************)
NumThreads == 2     \* threads, each making one call

Threads == 1..NumThreads

NotConcurrent ==
    UNCHANGED <<max_size, op, ret, ppVars, sessVars, shutVars, cliVars, pool0,
                lockVars>>

\* The map is iterated in one order here: ascending id.
RECURSIVE Ascending(_)
Ascending(S) ==
    IF S = {} THEN <<>>
    ELSE LET x == CHOOSE y \in S : \A z \in S : y <= z
         IN  <<x>> \o Ascending(S \ {x})

\* A thread that has not called yet
IdleThread ==
    [pc |-> "idle", call |-> "none", proxy |-> None, lat |-> 0, todo |-> <<>>,
     results |-> <<>>, flag |-> FALSE, ret |-> [kind |-> "none"], after |-> {}]

\* The calls a thread can make: add with a Proxy::new value, get_available,
\* and test_all or retry_connections, whose tester measures `lat` for every
\* entry it probes during the call.
CallInputs ==
    {[call |-> "add", proxy |-> Some(ProxyNew(id)), lat |-> 0] : id \in Ids}
    \cup {[call |-> "get_available", proxy |-> None, lat |-> 0]}
    \cup {[call |-> c, proxy |-> None, lat |-> l] :
            c \in {"test_all", "retry_connections"}, l \in Latencies}

\* A thread enters a Pool method.  `after` keeps the calls that had returned
\* by then.  Threads are numbered in the order in which they call.
Call(t, c) ==
    /\ th[t].pc = "idle"
    /\ IF t = 1 THEN TRUE ELSE th[t - 1].pc # "idle"
    /\ th' = [th EXCEPT ![t] =
                 [@ EXCEPT !.pc = "lock", !.call = c.call, !.proxy = c.proxy,
                           !.lat = c.lat,
                           !.after = {u \in Threads : th[u].pc = "done"}]]
    /\ UNCHANGED <<proxies, mutex>>
    /\ NotConcurrent

\* A lock that every thread gets at once.
MutexFreeAlways(holder) == TRUE

\* Mutex::lock returns when no thread holds the guard
MutexFree(holder) == holder = None

\* self.proxies.lock().unwrap(), and what the method does first with the
\* guard: add tests the capacity, test_all starts its iteration,
\* retry_connections collects the Failed ids.
Lock(t) ==
    /\ th[t].pc = "lock"
    /\ MutexFree(mutex)
    /\ mutex' = Some(t)
    /\ th' = [th EXCEPT ![t] =
                 [@ EXCEPT !.pc = "body",
                           !.flag = IF th[t].call = "add"
                                    THEN AddFull(proxies, max_size) ELSE FALSE,
                           !.todo = IF th[t].call = "test_all"
                                    THEN Ascending(DOMAIN proxies)
                                    ELSE IF th[t].call = "retry_connections"
                                    THEN Ascending(FailedIds(proxies))
                                    ELSE <<>>]]
    /\ UNCHANGED proxies
    /\ NotConcurrent

\* The method returns `value`; the guard is dropped.
Return(t, value) ==
    /\ th' = [th EXCEPT ![t] = [@ EXCEPT !.pc = "done", !.ret = value]]
    /\ mutex' = None

\* add after the capacity test: return the error, or insert and return Ok
AddFinish(t) ==
    /\ th[t].pc = "body" /\ th[t].call = "add"
    /\ IF th[t].flag
       THEN /\ Return(t, [kind |-> "Err"])
            /\ UNCHANGED proxies
       ELSE /\ proxies' = MapInsert(proxies, Unwrap(th[t].proxy).id, Unwrap(th[t].proxy))
            /\ Return(t, [kind |-> "Ok"])
    /\ NotConcurrent

\* get_available: the scan of the map
GetAvailableFinish(t) ==
    /\ th[t].pc = "body" /\ th[t].call = "get_available"
    /\ Return(t, [kind |-> "Option",
                  value |-> get_available(proxies, Ascending(DOMAIN proxies))])
    /\ UNCHANGED proxies
    /\ NotConcurrent

\* test_all, one turn of its loop
TestAllStep(t) ==
    /\ th[t].pc = "body" /\ th[t].call = "test_all"
    /\ th[t].todo # <<>>
    /\ LET id == Head(th[t].todo)
           r == test_proxy(proxies[id], th[t].lat)
       IN  /\ proxies' = [proxies EXCEPT ![id] = ApplyTestResult(proxies[id], r)]
           /\ th' = [th EXCEPT ![t] =
                        [@ EXCEPT !.todo = Tail(@),
                                  !.results = Append(@, PushedResult(proxies[id], r))]]
    /\ UNCHANGED mutex
    /\ NotConcurrent

\* test_all after its loop
TestAllFinish(t) ==
    /\ th[t].pc = "body" /\ th[t].call = "test_all"
    /\ th[t].todo = <<>>
    /\ Return(t, [kind |-> "Results", results |-> th[t].results])
    /\ UNCHANGED proxies
    /\ NotConcurrent

\* retry_connections, one turn of its loop over the collected ids
RetryStep(t) ==
    /\ th[t].pc = "body" /\ th[t].call = "retry_connections"
    /\ th[t].todo # <<>>
    /\ LET id == Head(th[t].todo)
           r == test_proxy(proxies[id], th[t].lat)
       IN  IF Succeeded(r)
           THEN /\ proxies' = [proxies EXCEPT ![id] =
                                  update_status_and_latency(proxies[id], "Available",
                                                            r.latency)]
                /\ th' = [th EXCEPT ![t] = [@ EXCEPT !.todo = Tail(@), !.flag = TRUE]]
           ELSE /\ UNCHANGED proxies
                /\ th' = [th EXCEPT ![t] = [@ EXCEPT !.todo = Tail(@)]]
    /\ UNCHANGED mutex
    /\ NotConcurrent

\* retry_connections after its loop
RetryFinish(t) ==
    /\ th[t].pc = "body" /\ th[t].call = "retry_connections"
    /\ th[t].todo = <<>>
    /\ Return(t, [kind |-> "Bool", value |-> th[t].flag])
    /\ UNCHANGED proxies
    /\ NotConcurrent

\* The entries of the map the threads start on: Failed ones and measured
\* Available ones, as earlier calls have left them.  The map starts with
\* the first n ids, one id at least being left for the threads to add.
StartValues(id) ==
    {update_status(ProxyNew(id), "Failed"),
     update_status_and_latency(ProxyNew(id), "Available", Some(1))}

StartMaps ==
    UNION {{m \in [1..n -> UNION {StartValues(i) : i \in 1..n}] :
                \A i \in 1..n : m[i].id = i}
           : n \in 0..(NumIds - 1)}

InitConcurrent ==
    /\ proxies \in StartMaps
    /\ max_size \in Cardinality(DOMAIN proxies)..MaxCap
    /\ op = [name |-> "new"]
    /\ ret = [kind |-> "Pool"]
    /\ th = [t \in Threads |-> IdleThread]
    /\ mutex = None
    /\ pool0 = proxies
    /\ LocksIdle
    /\ ProxyPoolIdle /\ SessionIdle /\ ShutdownIdle /\ CliIdle

NextConcurrent ==
    \/ \E t \in Threads : \E c \in CallInputs : Call(t, c)
    \/ \E t \in Threads : Lock(t)
    \/ \E t \in Threads : AddFinish(t)
    \/ \E t \in Threads : GetAvailableFinish(t)
    \/ \E t \in Threads : TestAllStep(t)
    \/ \E t \in Threads : TestAllFinish(t)
    \/ \E t \in Threads : RetryStep(t)
    \/ \E t \in Threads : RetryFinish(t)

SpecConcurrent == InitConcurrent /\ [][NextConcurrent]_vars

\* One call made alone on map m: the map it leaves and what it returns
Sequential(m, c) ==
    IF c.call = "add"
    THEN IF AddFull(m, max_size)
         THEN [map |-> m, ret |-> [kind |-> "Err"]]
         ELSE [map |-> MapInsert(m, Unwrap(c.proxy).id, Unwrap(c.proxy)),
               ret |-> [kind |-> "Ok"]]
    ELSE IF c.call = "get_available"
    THEN [map |-> m,
          ret |-> [kind |-> "Option", value |-> get_available(m, Ascending(DOMAIN m))]]
    ELSE IF c.call = "test_all"
    THEN LET out == TestAllLoop(Ascending(DOMAIN m),
                                [i \in DOMAIN m |-> test_proxy(m[i], c.lat)], m, <<>>)
         IN  [map |-> out.map, ret |-> [kind |-> "Results", results |-> out.results]]
    ELSE LET out == RetryLoop(Ascending(FailedIds(m)),
                              [i \in DOMAIN m |-> test_proxy(m[i], c.lat)], m, FALSE)
         IN  [map |-> out.map, ret |-> [kind |-> "Bool", value |-> out.any_updated]]

\* The calls of `order`, made one after the other from map m, return what
\* the threads got and leave the map the threads left.
RECURSIVE SameAsSequential(_, _)
SameAsSequential(order, m) ==
    IF order = <<>> THEN m = proxies
    ELSE LET out == Sequential(m, th[Head(order)])
         IN  /\ out.ret = th[Head(order)].ret
             /\ SameAsSequential(Tail(order), out.map)

\* A call that had returned before another was made comes before it.
RealTimeOrder(order) ==
    \A i \in 1..Len(order) : \A j \in 1..Len(order) :
        order[i] \in th[order[j]].after => i < j

Returned == {t \in Threads : th[t].pc = "done"}
Quiescent == \A t \in Threads : th[t].pc \in {"idle", "done"}

\* C13: whenever no call is in progress, the calls that have returned have
\* the results and have left the map that some one-at-a-time ordering of
\* them, consistent with their real-time order, gives from the map they
\* started on.
C13_Linearizable ==
    Quiescent =>
        \E order \in Orders(Returned) :
            /\ RealTimeOrder(order)
            /\ SameAsSequential(order, pool0)

\* two calls that overlapped have returned, the second to enter having taken
\* the lock first, and one of them changed the map
C13_Witness ==
    /\ Quiescent
    /\ Returned = Threads
    /\ \A t \in Threads : th[t].after = {}
    /\ proxies # pool0
    /\ ~SameAsSequential(Ascending(Threads), pool0)

(***************************************************************************)
(* The command interface: next (src/main.rs process_command)               *)
(***************************************************************************)
\* Pool::get_all_proxies under iteration order `order`: the values, cloned
get_all_proxies(m, order) == [k \in 1..Len(order) |-> m[order[k]]]

\* Iterator::position: the 0-based index of the first entry with this id
Position(list, id) ==
    IF \E k \in 1..Len(list) : list[k].id = id
    THEN Some((CHOOSE k \in 1..Len(list) :
                  /\ list[k].id = id
                  /\ \A j \in 1..(k - 1) : list[j].id # id) - 1)
    ELSE None

\* process_command "next" on map m iterated in `order`, the tester measuring
\* `elapsed`: what it prints.  "none": no Available entry; "switched": the
\* entry after the current one among the Available ones, probed with
\* success; "failed": that entry, the probe not succeeding; "first": no
\* current entry; "unknown": the current entry is not in the list.
next_command(m, order, elapsed) ==
    LET all_proxies == get_all_proxies(m, order)
        available_proxies == SelectSeq(all_proxies, LAMBDA p : p.status = "Available")
        current == get_available(m, order)
    IN  IF available_proxies = <<>> THEN [kind |-> "none", value |-> None]
        ELSE IF current = None
        THEN [kind |-> "first", value |-> Some(available_proxies[1])]
        ELSE LET current_idx == Position(available_proxies, Unwrap(current).id)
             IN  IF current_idx = None THEN [kind |-> "unknown", value |-> None]
                 ELSE LET next_idx == (Unwrap(current_idx) + 1) % Len(available_proxies)
                          chosen == available_proxies[next_idx + 1]
                          r == test_proxy(chosen, elapsed)
                      IN  [kind |-> IF Succeeded(r) THEN "switched" ELSE "failed",
                           value |-> Some(chosen)]

\* process_command "next": lock the pool, print; the pool is not written.
NextCommand ==
    /\ Len(shown) < MaxShows
    /\ \E order \in Orders(DOMAIN proxies) : \E elapsed \in Latencies :
         shown' = Append(shown, [value |-> next_command(proxies, order, elapsed).value,
                                 at |-> now])
    /\ UNCHANGED now
    /\ NotCli

InitNextCommand == InitShow
NextNextCommand == Tick \/ NextCommand
SpecNextCommand == InitNextCommand /\ [][NextNextCommand]_vars

\* C21: the entry the last next command reported is the pool's current
\* entry, and as many next commands as there are Available entries have
\* reported that many distinct entries.
C21_NextAdvances ==
    LET n == Len(shown)
    IN  /\ (n >= 1 /\ shown[n].value # None) =>
              \A order \in Orders(DOMAIN proxies) :
                  get_available(proxies, order) # None
                  /\ Unwrap(get_available(proxies, order)).id = Unwrap(shown[n].value).id
        /\ (n >= 1 /\ n = Cardinality(AvailableIn(proxies))) =>
              Cardinality({Unwrap(shown[k].value).id : k \in 1..n}) = n

(***************************************************************************)
(* Claims about startup                                                    *)
(***************************************************************************)
\* The list setup_proxy_pool hands to new_with_proxies when the
\* configuration holds n proxies: the configured ones, or the local example
\* proxy 127.0.0.1:1080 alone (it takes the first id) when there is none.
StartupProxies(n) == IF n = 0 THEN IdList(1) ELSE IdList(n)

\* C22: after setup_proxy_pool the pool is not empty: it holds the first
\* entry of the list it was built from (the local example proxy when
\* nothing is configured), whatever the capacity.
C22_PoolNeverEmpty ==
    /\ DOMAIN proxies # {}
    /\ \A n \in 0..NumIds : Head(StartupProxies(n)) \in DOMAIN proxies

(***************************************************************************)
(* load_from_file on the file's lines                                      *)
(***************************************************************************)
\* The proxy file as text: its lines in order, 0 standing for a line that
\* is empty after trim(), an address for any other line.
FileTexts == SeqsUpTo(Addrs \cup {0}, NumAddrs + 1)

\* BufReader::lines and trim(): the lines as load_from_file tests them
LinesOf(file) == [k \in 1..Len(file) |-> IF file[k] = 0 THEN Blank ELSE Some(file[k])]

\* load_from_file on the file as it stands: read and deduplicate the lines
\* into the HashSet, probe every address (outcome), collect the valid ones
\* in the order the HashSet was iterated (order), sort, replace the list,
\* rewrite the file (which may fail), start the health check.
LoadFromFile(order, outcome, write_ok) ==
    /\ hc_pc = "sleep"
    /\ hc_tasks < MaxLoads
    /\ LET valid_proxies == sort_by_latency(ValidProxies(order, outcome, <<>>))
       IN  /\ pp_proxies' = valid_proxies
           /\ IF write_ok
              THEN /\ proxy_file' = AddressesOf(valid_proxies)
                   /\ hc_tasks' = start_health_check(hc_tasks)
              ELSE UNCHANGED <<proxy_file, hc_tasks>>
    /\ consec' = [a \in Addrs |-> 0]
    /\ pp_op' = None
    /\ UNCHANGED <<current_index, retry_times, hc_pc, hc_i>>
    /\ UNCHANGED calls
    /\ NotProxyPool

InitLoad ==
    /\ pp_proxies = <<>>
    /\ current_index = 0
    /\ retry_times \in 0..MaxRetry
    /\ proxy_file \in FileTexts
    /\ hc_tasks = 0
    /\ hc_pc = "sleep"
    /\ hc_i = 0
    /\ pp_op = None
    /\ calls = <<>>
    /\ consec = [a \in Addrs |-> 0]
    /\ PoolIdle /\ SessionIdle /\ ShutdownIdle
    /\ ConcurrentIdle /\ CliIdle

NextLoad ==
    \/ LoadOpenFails
    \/ \E order \in Orders(ReadLines(LinesOf(proxy_file))) :
         \E outcome \in [ReadLines(LinesOf(proxy_file)) -> ProbeResults] :
           \E write_ok \in BOOLEAN : LoadFromFile(order, outcome, write_ok)

SpecLoad == InitLoad /\ [][NextLoad]_vars

\* The first line of the file that holds address a
FirstSeen(file, a) == CHOOSE k \in 1..Len(file) : file[k] = a /\ \A j \in 1..(k - 1) : file[j] # a

\* C23: a load leaves a list without blank or duplicate addresses, all of
\* them from the file, and two entries of equal latency stand in the list
\* in the order in which their addresses first appeared in the file.
C23_FirstSeenOrder ==
    [][/\ \A k \in 1..Len(pp_proxies') :
             /\ pp_proxies'[k].address # 0
             /\ \E j \in 1..Len(proxy_file) : proxy_file[j] = pp_proxies'[k].address
             /\ \A j \in 1..Len(pp_proxies') :
                   pp_proxies'[j].address = pp_proxies'[k].address => j = k
       /\ \A i \in 1..Len(pp_proxies') : \A j \in 1..Len(pp_proxies') :
             (i < j /\ pp_proxies'[i].latency = pp_proxies'[j].latency) =>
                 FirstSeen(proxy_file, pp_proxies'[i].address)
                     < FirstSeen(proxy_file, pp_proxies'[j].address)]_vars

(***************************************************************************)
(* Claims about a failed bind                                              *)
(***************************************************************************)
\* What main returns once it has come past initialize_app: Ok(()).
MainResult == "Ok"

\* The exit status of the process for main's result: 0 for Ok, 1 for Err
ExitStatus(result) == IF result = "Ok" THEN 0 ELSE 1

\* run_with_shutdown has returned the bind error
BindFailed == listener.result = "Err"

\* C24: once the bind has failed the command loop processes no command, and
\* when main returns the exit status is not zero.
C24_BindFailureFatal ==
    [][BindFailed =>
          /\ ~(main_pc = "commands" /\ main_pc' # "commands")
          /\ (main_pc' = "exit" => ExitStatus(MainResult) # 0)]_vars

(***************************************************************************)
(* Claims about a session that stalls                                      *)
(***************************************************************************)
\* The steps of a session that wait for no byte from a peer are taken when
\* they can be: the pick, the dial (the operating system bounds a connect)
\* and the two writes that follow no read.  A step that reads waits for the
\* peer, and nothing in handle_connection bounds that wait.
SessionFairness ==
    /\ WF_vars(Pick)
    /\ WF_vars(\E connect_ok \in BOOLEAN : Connect(connect_ok))
    /\ WF_vars(\E write_ok \in BOOLEAN : UpRequest(write_ok))
    /\ WF_vars(\E write_ok \in BOOLEAN : Reply(write_ok))

InitStall == InitSession
NextStall == SessionNext
SpecStall == InitStall /\ [][NextStall]_vars /\ SessionFairness

\* C25: a session eventually ends or enters the relay.
C25_EstablishmentEnds == <>(s_result # "running" \/ s_pc = "relay")

(***************************************************************************)
(* Claims about the entries of a Pool built from Proxy::new values         *)
(***************************************************************************)
\* Pool::add of a Proxy::new value
AddNew(id) == Add(ProxyNew(id))

\* A pool that is given Proxy::new values only, tested with every value the
\* tester's return type has, and retried (a retry changes an entry only
\* when its probe succeeds).
InitBuilt ==
    /\ PoolInit /\ ProxyPoolIdle /\ SessionIdle /\ ShutdownIdle
    /\ ConcurrentIdle /\ CliIdle
NextBuilt ==
    \/ \E id \in Ids : AddNew(id)
    \/ TestAllAnyResult
    \/ RetryConnections
SpecBuilt == InitBuilt /\ [][NextBuilt]_vars

\* C26: an entry with status Available has a measured latency: not the
\* never-measured u64::MAX, and equal to its recorded last_latency.
C26_AvailableIsMeasured ==
    \A i \in AvailableIn(proxies) :
        /\ proxies[i].latency # U64_MAX
        /\ proxies[i].last_latency = Some(proxies[i].latency)

\* one entry is Available after a probe, another has been measured and has
\* failed since
C26_Witness ==
    /\ \E i \in AvailableIn(proxies) : proxies[i].latency \in Latencies
    /\ \E j \in DOMAIN proxies :
          proxies[j].status = "Failed" /\ proxies[j].last_latency # None

(***************************************************************************)
(* Claims about the order in which test_all visits the entries             *)
(***************************************************************************)
\* The first test_all on a pool, over every value test_proxy's return type
\* has and every iteration order; op keeps the map the call started on and
\* the outcome each entry received.
TestAllOnce ==
    /\ op.name = "new"
    /\ \E order \in Orders(DOMAIN proxies) :
         \E pick \in [DOMAIN proxies ->
                         ({"success"} \X Latencies) \cup ({"failure", "error"} \X {1})] :
           LET outcome == [i \in DOMAIN proxies |->
                              TestResultOf(proxies[i], pick[i][1], pick[i][2])]
               out == TestAllLoop(order, outcome, proxies, <<>>)
           IN  /\ proxies' = out.map
               /\ ret' = [kind |-> "Results", results |-> out.results]
               /\ op' = [name |-> "test_all", before |-> proxies, outcome |-> outcome]
    /\ UNCHANGED max_size
    /\ NotPool

InitOrder == InitTestAll
NextOrder == TestAllOnce
SpecOrder == InitOrder /\ [][NextOrder]_vars

\* C27: the map a test_all call leaves is the one that the same per-entry
\* outcomes give from the same map when the entries are visited in any
\* other order.
C27_OrderIndependent ==
    op.name = "test_all" =>
        \A order \in Orders(DOMAIN op.before) :
            TestAllLoop(order, op.outcome, op.before, <<>>).map = proxies

\* a call over two entries has made one Available and the other Failed
C27_Witness ==
    /\ op.name = "test_all"
    /\ Len(ret.results) >= 2
    /\ \E i \in DOMAIN proxies : proxies[i].status = "Available"
    /\ \E i \in DOMAIN proxies : proxies[i].status = "Failed"

(***************************************************************************)
(* Claims about the lock during a probe                                    *)
(***************************************************************************)
\* Thread t is inside the loop of test_all or retry_connections with an
\* entry still to probe: its next step waits for tester.test_proxy.
Probing(t) ==
    /\ th[t].pc = "body"
    /\ th[t].call \in {"test_all", "retry_connections"}
    /\ th[t].todo # <<>>

\* C28: while a thread of test_all or retry_connections waits for a probe,
\* the pool's lock is free, so that another thread's call can take it.
C28_ProbeOutsideLock ==
    \A t \in Threads : Probing(t) => MutexFree(mutex)

(***************************************************************************)
(* The health-check task and the shutdown broadcast                        *)
(***************************************************************************)
\* A program that loads a ProxyPool and runs the command interface: the
\* health-check task is spawned on the runtime that main blocks on, and is
\* dropped with it when main returns.  The task's loop holds no
\* broadcast::Receiver and has no exit.
HealthCheckTask ==
    /\ main_pc # "exit"
    /\ ProxyPoolNext

\* The runtime polls every task that is ready to run.
HealthFairness ==
    /\ ShutdownFairness
    /\ WF_vars(main_pc # "exit" /\ HcBegin)
    /\ WF_vars(main_pc # "exit" /\ \E res \in ProbeResults : HcProbe(res))
    /\ WF_vars(main_pc # "exit" /\ HcEnd)

InitHealthStop ==
    /\ ProxyPoolInit /\ ShutdownInit /\ PoolIdle /\ SessionIdle
    /\ ConcurrentIdle /\ CliIdle
NextHealthStop == HealthCheckTask \/ ShutdownNext
SpecHealthStop == InitHealthStop /\ [][NextHealthStop]_vars /\ HealthFairness

\* C29: once the shutdown signal has been sent, the health-check task starts
\* no further cycle: it never again leaves its sleep to take the write lock.
C29_NoCycleAfterShutdown ==
    [][sent > 0 => ~(hc_pc = "sleep" /\ hc_pc' = "cycle")]_vars

(***************************************************************************)
(* The number of health-check tasks                                        *)
(***************************************************************************)
\* C30: at most one health-check task runs against a ProxyPool, however
\* many times load_from_file has been called on it.
C30_OneHealthCheckTask == hc_tasks <= 1

(***************************************************************************)
(* The order of the list that readers see                                  *)
(***************************************************************************)
\* a.latency <= b.latency for every two neighbours of the list
SortedByLatency(list) ==
    \A k \in 1..(Len(list) - 1) : list[k].latency <= list[k + 1].latency

\* The list's lock can be taken for reading: no health-check cycle holds the
\* write guard.
Observable == hc_pc = "sleep"

\* C31: whenever a reader can take the list's lock, the list that
\* list_proxies returns and that get_current_proxy and next_proxy index is in
\* non-decreasing order of latency, also after health-check cycles that
\* changed latencies or evicted entries.
C31_SortedWhenObservable ==
    Observable => SortedByLatency(list_proxies(pp_proxies))

\* A cycle has run (an entry has a failure counted) and has left two entries
\* whose order by latency is the reverse of their order by address.
C31_Witness ==
    /\ Observable
    /\ Len(pp_proxies) = 2
    /\ pp_proxies[1].latency < pp_proxies[2].latency
    /\ pp_proxies[1].address > pp_proxies[2].address
    /\ \E k \in 1..2 : pp_proxies[k].fail_count > 0

(***************************************************************************)
(* What a session has read before it turns to the pool                     *)
(***************************************************************************)
\* The positions of handle_connection before step 5 (pool.get_available)
BeforePool == {"greeting", "methods", "request", "address"}

\* C32: a session that has reached the pool lookup or anything after it has
\* read a greeting of version 5 and a request of version 5, command 1 and
\* address type 1, 3 or 4; a session that has not got that far, ended or
\* not, has selected no upstream and written nothing to one.
C32_ChecksBeforeUpstream ==
    /\ s_pc \notin BeforePool =>
         /\ s_req # None
         /\ Unwrap(s_req).greeting = 5
         /\ Unwrap(s_req).ver = 5
         /\ Unwrap(s_req).cmd = 1
         /\ Unwrap(s_req).atyp \in {1, 3, 4}
    /\ s_pc \in BeforePool =>
         /\ s_proxy = None
         /\ s_up = None
         /\ upstream_out = <<>>

\* A session with a domain target has selected an upstream and written to it.
C32_Witness ==
    /\ s_proxy # None
    /\ upstream_out # <<>>
    /\ Unwrap(s_req).atyp = 3

(***************************************************************************)
(* The reserved octet of the client request                                *)
(***************************************************************************)
\* The session has read VER CMD RSV ATYP of the request and gone on.
RequestRead == s_pc \notin {"greeting", "methods", "request"}

\* C33: a session whose client request carries a reserved octet other than
\* 0 selects no upstream and writes nothing to one.
C33_ReservedRejected ==
    (RequestRead /\ Unwrap(s_req).rsv # 0) =>
        /\ s_proxy = None
        /\ upstream_out = <<>>

(***************************************************************************)
(* The target address between the client's request and the upstream's:    *)
(* bytes to text (steps 3 and 4) and text to bytes (step 8)                *)
(***************************************************************************)
\* Text is a sequence of bytes, the characters as ASCII.
DOT == 46
COLON == 58

\* read_u16 and `(hi as u16) << 8 | lo as u16`: big endian
be16(hi, lo) == (hi * 256 + lo) % 65536

\* u16::to_be_bytes
to_be_bytes(v) == <<v \div 256, v % 256>>

\* The digits of n in a base, most significant first, no leading zero
RECURSIVE Digits(_, _)
Digits(n, base) ==
    IF n < base THEN <<n>> ELSE Append(Digits(n \div base, base), n % base)

\* Display of an integer: decimal for u8 ("{}"), lower-case hex for the
\* segments of an Ipv6Addr ("{:x}")
FormatNumber(n, base) ==
    [k \in 1..Len(Digits(n, base)) |->
        IF Digits(n, base)[k] < 10 THEN 48 + Digits(n, base)[k]
        ELSE 87 + Digits(n, base)[k]]

\* char::to_digit: the value of a digit character, 99 for any other
DigitValue(c) ==
    IF c \in 48..57 THEN c - 48
    ELSE IF c \in 97..102 THEN c - 87
    ELSE IF c \in 65..70 THEN c - 55
    ELSE 99

\* The value of a digit string that is not empty and not longer than
\* max_digits, None when a character is no digit of the base or the value
\* exceeds max.
RECURSIVE ParseDigits(_, _, _)
ParseDigits(text, base, acc) ==
    IF text = <<>> THEN acc
    ELSE IF acc < 0 \/ DigitValue(Head(text)) >= base THEN 0 - 1
    ELSE ParseDigits(Tail(text), base, acc * base + DigitValue(Head(text)))

ParseNumber(text, base, max_digits, max) ==
    IF text = <<>> \/ Len(text) > max_digits THEN None
    ELSE IF ParseDigits(text, base, 0) < 0 \/ ParseDigits(text, base, 0) > max THEN None
    ELSE Some(ParseDigits(text, base, 0))

\* str::split(sep): the pieces between the separators
RECURSIVE SplitFrom(_, _, _, _)
SplitFrom(text, sep, piece, pieces) ==
    IF text = <<>> THEN Append(pieces, piece)
    ELSE IF Head(text) = sep
         THEN SplitFrom(Tail(text), sep, <<>>, Append(pieces, piece))
         ELSE SplitFrom(Tail(text), sep, Append(piece, Head(text)), pieces)

Split(text, sep) == SplitFrom(text, sep, <<>>, <<>>)

\* The texts of a list joined with a separator character
RECURSIVE Join(_, _)
Join(texts, sep) ==
    IF texts = <<>> THEN <<>>
    ELSE IF Len(texts) = 1 THEN texts[1]
    ELSE texts[1] \o <<sep>> \o Join(Tail(texts), sep)

\* Ipv4Addr::new(a, b, c, d).to_string()
Ipv4ToString(octets) ==
    Join([k \in 1..Len(octets) |-> FormatNumber(octets[k], 10)], DOT)

\* Step 8, IPv4: push octet.parse::<u8>()? for every piece of
\* target_addr.split('.'); None when a piece does not parse.
ParseOctets(target_addr) ==
    LET pieces == Split(target_addr, DOT)
        parsed == [k \in 1..Len(pieces) |-> ParseNumber(pieces[k], 10, 3, 255)]
    IN  IF \E k \in 1..Len(pieces) : parsed[k] = None THEN None
        ELSE Some([k \in 1..Len(pieces) |-> Unwrap(parsed[k])])

\* The eight segments of the sixteen address bytes, as step 3 builds them
SegmentsOf(addr) == [k \in 1..8 |-> be16(addr[2 * k - 1], addr[2 * k])]

\* Ipv6Addr::segments() written with to_be_bytes
BytesOfSegments(segs) ==
    [k \in 1..(2 * Len(segs)) |-> to_be_bytes(segs[(k + 1) \div 2])[2 - (k % 2)]]

\* The number of zero segments in a row from position i on
RECURSIVE ZeroRun(_, _)
ZeroRun(segs, i) ==
    IF i > Len(segs) \/ segs[i] # 0 THEN 0 ELSE 1 + ZeroRun(segs, i + 1)

\* Display for Ipv6Addr: the first of the longest runs of zero segments
LongestZeroRun(segs) ==
    LET start == CHOOSE i \in 1..Len(segs) :
                    \A j \in 1..Len(segs) :
                        \/ ZeroRun(segs, j) < ZeroRun(segs, i)
                        \/ (ZeroRun(segs, j) = ZeroRun(segs, i) /\ i <= j)
    IN  [start |-> start, len |-> ZeroRun(segs, start)]

\* Segments in hex, joined with colons
FormatSegments(segs) ==
    Join([k \in 1..Len(segs) |-> FormatNumber(segs[k], 16)], COLON)

\* Ipv6Addr::to_string(): "::", "::1", "::ffff:a.b.c.d" for an IPv4-mapped
\* address, otherwise the segments with the longest run of two or more
\* zero segments written as "::"
Ipv6ToString(segs) ==
    IF \A k \in 1..8 : segs[k] = 0 THEN <<COLON, COLON>>
    ELSE IF (\A k \in 1..7 : segs[k] = 0) /\ segs[8] = 1 THEN <<COLON, COLON, 49>>
    ELSE IF (\A k \in 1..5 : segs[k] = 0) /\ segs[6] = 65535
    THEN <<COLON, COLON, 102, 102, 102, 102, COLON>>
            \o Ipv4ToString(BytesOfSegments(SubSeq(segs, 7, 8)))
    ELSE LET zeroes == LongestZeroRun(segs)
         IN  IF zeroes.len > 1
             THEN FormatSegments(SubSeq(segs, 1, zeroes.start - 1))
                    \o <<COLON, COLON>>
                    \o FormatSegments(SubSeq(segs, zeroes.start + zeroes.len, 8))
             ELSE FormatSegments(segs)


\* The groups of one side of an IPv6 text: hex numbers of at most four
\* digits between colons, the last of which may be a dotted IPv4 address
\* that stands for two segments.  None when a group does not parse.
ParseGroups(text) ==
    IF text = <<>> THEN Some(<<>>)
    ELSE LET pieces == Split(text, COLON)
             last == pieces[Len(pieces)]
             v4 == IF \E k \in 1..Len(last) : last[k] = DOT
                   THEN ParseOctets(last) ELSE None
             hex == [k \in 1..Len(pieces) |-> ParseNumber(pieces[k], 16, 4, 65535)]
             n == IF v4 = None THEN Len(pieces) ELSE Len(pieces) - 1
         IN  IF \E k \in 1..n : hex[k] = None THEN None
             ELSE IF v4 = None THEN Some([k \in 1..n |-> Unwrap(hex[k])])
             ELSE IF Len(Unwrap(v4)) # 4 THEN None
             ELSE Some([k \in 1..n |-> Unwrap(hex[k])]
                         \o <<be16(Unwrap(v4)[1], Unwrap(v4)[2]),
                               be16(Unwrap(v4)[3], Unwrap(v4)[4])>>)

\* The positions at which "::" stands in a text
DoubleColons(text) ==
    {p \in 1..(Len(text) - 1) : text[p] = COLON /\ text[p + 1] = COLON}


\* str::parse::<Ipv6Addr>(): eight groups, or fewer around one "::" that
\* stands for the zero segments left out; None for any other text.
ParseIpv6(text) ==
    IF DoubleColons(text) = {}
    THEN IF ParseGroups(text) # None /\ Len(Unwrap(ParseGroups(text))) = 8
         THEN ParseGroups(text) ELSE None
    ELSE LET p == CHOOSE q \in DoubleColons(text) : \A r \in DoubleColons(text) : q <= r
             head == ParseGroups(SubSeq(text, 1, p - 1))
             tail == ParseGroups(SubSeq(text, p + 2, Len(text)))
         IN  IF head = None \/ tail = None THEN None
             ELSE IF Len(Unwrap(head)) + Len(Unwrap(tail)) > 7 THEN None
             ELSE Some(Unwrap(head)
                         \o [k \in 1..(8 - Len(Unwrap(head)) - Len(Unwrap(tail))) |-> 0]
                         \o Unwrap(tail))

\* String::from_utf8 on bytes below 0xE0: an ASCII byte stands alone, a
\* lead byte 0xC2..0xDF takes one continuation byte 0x80..0xBF, and a
\* continuation byte or 0xC0, 0xC1 in lead position is an error.
RECURSIVE Utf8Valid(_)
Utf8Valid(bytes) ==
    IF bytes = <<>> THEN TRUE
    ELSE IF Head(bytes) < 128 THEN Utf8Valid(Tail(bytes))
    ELSE IF Head(bytes) \in 194..223
         THEN /\ Len(bytes) >= 2
              /\ bytes[2] \in 128..191
              /\ Utf8Valid(Tail(Tail(bytes)))
    ELSE FALSE

\* Step 3: the address bytes as read for the address type (for a domain:
\* the length octet, then the name) to target_addr; None where the `?` of
\* String::from_utf8 returns.
DecodeTarget(atyp, addr) ==
    IF atyp = 1 THEN Some(Ipv4ToString(addr))
    ELSE IF atyp = 3
         THEN IF Utf8Valid(Tail(addr)) THEN Some(Tail(addr)) ELSE None
    ELSE Some(Ipv6ToString(SegmentsOf(addr)))

\* An encoder that writes the address bytes of an IPv6 target from its
\* text without expanding "::".
EncodeTargetNoExpand(atyp, target_addr) ==
    IF atyp = 1
    THEN IF ParseOctets(target_addr) = None THEN None
         ELSE Some(<<1>> \o Unwrap(ParseOctets(target_addr)))
    ELSE IF atyp = 3
    THEN Some(<<3, Len(target_addr) % 256>> \o target_addr)
    ELSE IF ParseGroups(target_addr) = None THEN None
         ELSE Some(<<4>> \o BytesOfSegments(Unwrap(ParseGroups(target_addr))))

\* Step 8: the address type and the address bytes of the upstream request,
\* from target_addr; None where a `?` of a parse returns.
EncodeTarget(atyp, target_addr) ==
    IF atyp = 1
    THEN IF ParseOctets(target_addr) = None THEN None
         ELSE Some(<<1>> \o Unwrap(ParseOctets(target_addr)))
    ELSE IF atyp = 3
    THEN Some(<<3, Len(target_addr) % 256>> \o target_addr)
    ELSE IF ParseIpv6(target_addr) = None THEN None
         ELSE Some(<<4>> \o BytesOfSegments(Unwrap(ParseIpv6(target_addr))))


MaxDomainLen == 2   \* octets of a domain name at most

\* Bytes as they arrive in the address and the port: octets of one, two and
\* three decimal digits; segments 1, 100 and ffff next to zero segments;
\* domain octets "a", ".", and the two octets of a two-byte UTF-8
\* character; the ports 80 and 8080.
OctetBytes == {0, 7, 10, 255}
SegmentValues == {1, 256, 65535}
DomainBytes == {97, 46, 195, 169}
PortInputs == {<<0, 80>>, <<31, 144>>}

\* The address bytes a client can send for an address type
AddrInputs(atyp) ==
    IF atyp = 1 THEN [1..4 -> OctetBytes]
    ELSE IF atyp = 3
         THEN {<<Len(name)>> \o name : name \in SeqsUpTo(DomainBytes, MaxDomainLen)}
    ELSE IF atyp = 4
         THEN UNION {{BytesOfSegments(segs) : segs \in [1..8 -> {0, v}]}
                        : v \in SegmentValues}
    ELSE {<<>>}

\* 3. and 4. on the bytes: read the address for the address type and the
\* port; keep target_addr and port (and, for reference, the bytes read).
ReadTargetBytes(read_ok, addr, port_bytes) ==
    /\ s_pc = "address" /\ s_result = "running"
    /\ LET req == Unwrap(s_req)
       IN  IF ~AddressSupported(req.atyp) \/ ~read_ok
                \/ DecodeTarget(req.atyp, addr) = None
           THEN Fail
           ELSE /\ s_req' = Some([greeting |-> req.greeting, ver |-> req.ver,
                                  cmd |-> req.cmd, rsv |-> req.rsv, atyp |-> req.atyp,
                                  addr |-> addr, port_bytes |-> port_bytes,
                                  target_addr |-> Unwrap(DecodeTarget(req.atyp, addr)),
                                  port |-> be16(port_bytes[1], port_bytes[2])])
                /\ s_pc' = "pick"
                /\ UNCHANGED <<s_proxy, client_out, upstream_out, s_up, s_result>>
    /\ NotSession

\* 8. on the bytes: 05 01 00, the address type and address from
\* target_addr, the port
ForwardRequest(write_ok) ==
    /\ s_pc = "up_request" /\ s_result = "running"
    /\ LET req == Unwrap(s_req)
           target == EncodeTarget(req.atyp, req.target_addr)
       IN  IF target = None \/ ~write_ok
           THEN Fail
           ELSE /\ upstream_out' = Append(upstream_out,
                        [kind |-> "request",
                         bytes |-> <<5, 1, 0>> \o Unwrap(target) \o to_be_bytes(req.port)])
                /\ s_pc' = "up_reply"
                /\ UNCHANGED <<s_req, s_proxy, client_out, s_up, s_result>>
    /\ NotSession

\* One session up to the request it forwards, with one measured upstream in
\* the pool.
InitForward ==
    /\ proxies = setup_proxy_pool(1, 1, <<1>>, [i \in Ids |-> 1]).map
    /\ max_size = 1
    /\ op = [name |-> "test_all"]
    /\ ret = [kind |-> "Results",
              results |-> setup_proxy_pool(1, 1, <<1>>, [i \in Ids |-> 1]).results]
    /\ SessionInit
    /\ ProxyPoolIdle /\ ShutdownIdle
    /\ ConcurrentIdle /\ CliIdle

NextForward ==
    \/ \E read_ok \in BOOLEAN : \E ver \in VerBytes : ReadMethodSelection(read_ok, ver)
    \/ \E read_ok \in BOOLEAN : \E write_ok \in BOOLEAN : ReadMethods(read_ok, write_ok)
    \/ \E read_ok \in BOOLEAN : \E ver \in VerBytes : \E cmd \in CmdBytes :
         \E rsv \in {0, 1} : \E atyp \in AtypBytes :
            ReadRequest(read_ok, ver, cmd, rsv, atyp)
    \/ /\ s_pc = "address"
       /\ \E read_ok \in BOOLEAN : \E addr \in AddrInputs(Unwrap(s_req).atyp) :
            \E port_bytes \in PortInputs :
               ReadTargetBytes(read_ok, addr, port_bytes)
    \/ Pick
    \/ \E connect_ok \in BOOLEAN : Connect(connect_ok)
    \/ \E write_ok \in BOOLEAN : \E read_ok \in BOOLEAN : \E ver \in VerBytes :
         \E method \in MethodBytes : UpGreeting(write_ok, read_ok, ver, method)
    \/ \E write_ok \in BOOLEAN : ForwardRequest(write_ok)

SpecForward == InitForward /\ [][NextForward]_vars

\* The request frame as the client sent it
ClientFrame(req) ==
    <<req.ver, req.cmd, req.rsv, req.atyp>> \o req.addr \o req.port_bytes

\* C34: for a client request 05 01 00 with an IPv4, domain or IPv6 target
\* that the session has read, building the upstream request does not fail,
\* and the request frame written to the upstream is the client's frame,
\* byte for byte.
C34_RequestRoundTrip ==
    /\ (s_pc = "up_request" /\ Unwrap(s_req).rsv = 0) =>
            EncodeTarget(Unwrap(s_req).atyp, Unwrap(s_req).target_addr) # None
    /\ (s_pc = "up_reply" /\ Unwrap(s_req).rsv = 0) =>
            upstream_out[Len(upstream_out)].bytes = ClientFrame(Unwrap(s_req))

\* The request of an IPv6 target whose text has "::" in the middle has been
\* forwarded.
C34_Witness ==
    /\ s_pc = "up_reply"
    /\ Unwrap(s_req).rsv = 0
    /\ Unwrap(s_req).atyp = 4
    /\ DoubleColons(Unwrap(s_req).target_addr) # {}
    /\ Unwrap(s_req).target_addr[1] # COLON
    /\ upstream_out[Len(upstream_out)].kind = "request"

(***************************************************************************)
(* Step 12, the relay: two tokio::io::copy futures under one select!       *)
(***************************************************************************)
MaxChunks == 2      \* chunks a copy direction moves at most

\* The two copy futures, by the names of step 12
Directions == {"client_to_proxy", "proxy_to_client"}
OtherDirection(dir) == CHOOSE d \in Directions : d # dir

DataChunk == [kind |-> "data", bytes |-> <<>>]

\* The chunks a direction has written to its destination
Copied(dir) ==
    IF dir = "client_to_proxy"
    THEN Len(SelectSeq(upstream_out, LAMBDA f : f.kind = "data"))
    ELSE Len(SelectSeq(client_out, LAMBDA f : f.kind = "data"))

\* The session is inside the select! of step 12
Relaying == s_pc = "relay" /\ s_result = "running"

\* A copy future moves one chunk from its reader to its writer.
Copy(dir) ==
    /\ Relaying
    /\ Unwrap(s_up)[dir] = "copying"
    /\ Copied(dir) < MaxChunks
    /\ IF dir = "client_to_proxy"
       THEN /\ upstream_out' = Append(upstream_out, DataChunk)
            /\ UNCHANGED client_out
       ELSE /\ client_out' = Append(client_out, DataChunk)
            /\ UNCHANGED upstream_out
    /\ UNCHANGED <<s_pc, s_req, s_proxy, s_up, s_result>>
    /\ NotSession

\* A direction comes to its end: its reader is at end of file ("Ok"), or a
\* read or write on it fails ("Err").  The copy future is ready from then on.
CopyEnds(dir, res) ==
    /\ Relaying
    /\ Unwrap(s_up)[dir] = "copying"
    /\ s_up' = Some([Unwrap(s_up) EXCEPT ![dir] = res])
    /\ UNCHANGED <<s_pc, s_req, s_proxy, client_out, upstream_out, s_result>>
    /\ NotSession

\* A relay that returns only when both copy futures are ready (join).
SelectBoth(first) ==
    /\ Relaying
    /\ \A d \in Directions : Unwrap(s_up)[d] # "copying"
    /\ s_up' = Some([Unwrap(s_up) EXCEPT !.arm = first])
    /\ s_result' = "ok"
    /\ UNCHANGED <<s_pc, s_req, s_proxy, client_out, upstream_out>>
    /\ NotSession

\* select!: the task is polled with a ready copy future; of two ready ones
\* the branch polled first is taken.  The arm only logs its result, the
\* other future is dropped with the select!, and the function returns Ok(()).
Select(first) ==
    /\ Relaying
    /\ \E d \in Directions : Unwrap(s_up)[d] # "copying"
    /\ s_up' = Some([Unwrap(s_up) EXCEPT !.arm =
                        IF Unwrap(s_up)[first] # "copying" THEN first
                        ELSE OtherDirection(first)])
    /\ s_result' = "ok"
    /\ UNCHANGED <<s_pc, s_req, s_proxy, client_out, upstream_out>>
    /\ NotSession

\* A session that has written its success reply and starts to relay
InitRelay ==
    /\ proxies = setup_proxy_pool(1, 1, <<1>>, [i \in Ids |-> 1]).map
    /\ max_size = 1
    /\ op = [name |-> "test_all"]
    /\ ret = [kind |-> "Results",
              results |-> setup_proxy_pool(1, 1, <<1>>, [i \in Ids |-> 1]).results]
    /\ s_pc = "relay"
    /\ \E atyp \in {1, 3, 4} : \E rsv \in {0, 1} :
         /\ s_req = Some([greeting |-> 5, ver |-> 5, cmd |-> 1, rsv |-> rsv, atyp |-> atyp])
         /\ upstream_out = <<UpstreamGreeting, UpstreamRequest(atyp)>>
    /\ s_proxy = Some(proxies[1])
    /\ client_out = <<MethodReply, SuccessReply>>
    /\ \E atyp \in {1, 3, 4} :
         s_up = Some([method |-> 0, rep |-> Some(0), atyp |-> Some(atyp), bound |-> TRUE,
                      client_to_proxy |-> "copying", proxy_to_client |-> "copying",
                      arm |-> "none"])
    /\ s_result = "running"
    /\ ProxyPoolIdle /\ ShutdownIdle
    /\ ConcurrentIdle /\ CliIdle

NextRelay ==
    \/ \E dir \in Directions : Copy(dir)
    \/ \E dir \in Directions : \E res \in {"Ok", "Err"} : CopyEnds(dir, res)
    \/ \E first \in Directions : Select(first)

\* The runtime polls a task whose future is ready.
RelayFairness == WF_vars(\E first \in Directions : Select(first))

SpecRelay == InitRelay /\ [][NextRelay]_vars /\ RelayFairness

\* A copy direction is at its end.
SomeDirectionEnded == \E d \in Directions : Unwrap(s_up)[d] # "copying"

\* C35: once a copy direction has ended, with or without an error, the
\* session ends, whatever the other direction does; it ends with Ok(()),
\* and nothing is copied in either direction from then on.
C35_FirstEndStopsRelay ==
    /\ (s_pc = "relay" /\ SomeDirectionEnded) ~> (s_result # "running")
    /\ [](s_pc = "relay" => s_result \in {"running", "ok"})
    /\ [][s_result # "running" =>
            UNCHANGED <<client_out, upstream_out>>]_vars

\* The session has ended on an error of one direction while the other was
\* still copying.
C35_Witness ==
    /\ s_pc = "relay"
    /\ s_result = "ok"
    /\ \E d \in Directions :
         /\ Unwrap(s_up).arm = d
         /\ Unwrap(s_up)[d] = "Err"
         /\ Unwrap(s_up)[OtherDirection(d)] = "copying"

(***************************************************************************)
(* ProxyPool's two locks: proxies and current_index, tokio::sync::RwLock   *)
(***************************************************************************)
NotLocks == UNCHANGED <<poolVars, sessVars, shutVars, cliVars, th, mutex, pool0>>

\* The tasks: one caller of each method, and the health-check task
Callers == {"next_proxy", "get_current_proxy", "list_proxies"}
Tasks == Callers \cup {"health_check"}

\* An RwLock nobody holds or waits for
FreeLock == [readers |-> {}, writer |-> {}, queue |-> <<>>]

\* Whether task t holds the lock
Holds(lock, t) == t \in lock.readers \cup lock.writer

\* Whether the lock can be given out in a mode as it stands
Grantable(lock, mode) ==
    IF mode = "read" THEN lock.writer = {}
    ELSE lock.writer = {} /\ lock.readers = {}

\* The lock given to task t
Granted(lock, t, mode) ==
    IF mode = "read" THEN [lock EXCEPT !.readers = @ \cup {t}]
    ELSE [lock EXCEPT !.writer = {t}]

\* RwLock::read / RwLock::write: the lock is taken at once when it can be
\* given out and no task is queued; otherwise the task joins the queue.
Acquire(lock, t, mode) ==
    IF Grantable(lock, mode) /\ lock.queue = <<>>
    THEN Granted(lock, t, mode)
    ELSE [lock EXCEPT !.queue = Append(@, [task |-> t, mode |-> mode])]

\* The queue served from its head, first in, first out, as far as the lock
\* can be given out
RECURSIVE Serve(_)
Serve(lock) ==
    IF lock.queue = <<>> \/ ~Grantable(lock, Head(lock.queue).mode) THEN lock
    ELSE Serve(Granted([lock EXCEPT !.queue = Tail(@)],
                       Head(lock.queue).task, Head(lock.queue).mode))

\* A guard dropped
Release(lock, t) ==
    Serve([lock EXCEPT !.readers = @ \ {t}, !.writer = @ \ {t}])


\* A task takes its next lock, or joins that lock's queue.
Take(t, name, mode, pc) ==
    /\ rwlocks' = [rwlocks EXCEPT ![name] = Acquire(@, t, mode)]
    /\ tasks' = [tasks EXCEPT ![t] = pc]

\* next_proxy: `self.current_index.write().await`
NextProxyCallIndex ==
    /\ tasks["next_proxy"] = "idle"
    /\ Take("next_proxy", "current_index", "write", "index")
    /\ UNCHANGED ppVars
    /\ NotLocks

\* next_proxy, holding the cursor: `self.proxies.read().await`
NextProxyCallProxies ==
    /\ tasks["next_proxy"] = "index"
    /\ Holds(rwlocks.current_index, "next_proxy")
    /\ Take("next_proxy", "proxies", "read", "proxies")
    /\ UNCHANGED ppVars
    /\ NotLocks

\* next_proxy, holding both: move the cursor, return, drop both guards
NextProxyReturn ==
    /\ tasks["next_proxy"] = "proxies"
    /\ Holds(rwlocks.proxies, "next_proxy")
    /\ current_index' = next_proxy(pp_proxies, current_index).index
    /\ pp_op' = None
    /\ rwlocks' = [rwlocks EXCEPT !.proxies = Release(@, "next_proxy"),
                                  !.current_index = Release(@, "next_proxy")]
    /\ tasks' = [tasks EXCEPT !["next_proxy"] = "done"]
    /\ UNCHANGED <<pp_proxies, retry_times, proxy_file, hc_tasks, hc_pc, hc_i,
                   calls, consec>>
    /\ NotLocks

\* get_current_proxy: `self.proxies.read().await`
GetCurrentCallProxies ==
    /\ tasks["get_current_proxy"] = "idle"
    /\ Take("get_current_proxy", "proxies", "read", "proxies")
    /\ UNCHANGED ppVars
    /\ NotLocks

\* get_current_proxy, holding the list: `*self.current_index.read().await`
GetCurrentCallIndex ==
    /\ tasks["get_current_proxy"] = "proxies"
    /\ Holds(rwlocks.proxies, "get_current_proxy")
    /\ Take("get_current_proxy", "current_index", "read", "index")
    /\ UNCHANGED ppVars
    /\ NotLocks

\* get_current_proxy, holding both: read the cursor, return the entry, drop
\* both guards
GetCurrentReturn ==
    /\ tasks["get_current_proxy"] = "index"
    /\ Holds(rwlocks.current_index, "get_current_proxy")
    /\ rwlocks' = [rwlocks EXCEPT !.current_index = Release(@, "get_current_proxy"),
                                  !.proxies = Release(@, "get_current_proxy")]
    /\ tasks' = [tasks EXCEPT !["get_current_proxy"] = "done"]
    /\ UNCHANGED ppVars
    /\ NotLocks

\* list_proxies: `self.proxies.read().await`
ListProxiesCall ==
    /\ tasks["list_proxies"] = "idle"
    /\ Take("list_proxies", "proxies", "read", "proxies")
    /\ UNCHANGED ppVars
    /\ NotLocks

\* list_proxies, holding the list: clone it, drop the guard
ListProxiesReturn ==
    /\ tasks["list_proxies"] = "proxies"
    /\ Holds(rwlocks.proxies, "list_proxies")
    /\ rwlocks' = [rwlocks EXCEPT !.proxies = Release(@, "list_proxies")]
    /\ tasks' = [tasks EXCEPT !["list_proxies"] = "done"]
    /\ UNCHANGED ppVars
    /\ NotLocks

\* The health-check task wakes from its sleep: `pool.write().await`
HcWake ==
    /\ tasks["health_check"] = "idle"
    /\ hc_tasks >= 1
    /\ Take("health_check", "proxies", "write", "proxies")
    /\ UNCHANGED ppVars
    /\ NotLocks

\* The health-check task holds the write guard: the cycle starts.
HcLocked ==
    /\ tasks["health_check"] = "proxies"
    /\ Holds(rwlocks.proxies, "health_check")
    /\ hc_pc' = "cycle"
    /\ hc_i' = 0
    /\ pp_op' = None
    /\ tasks' = [tasks EXCEPT !["health_check"] = "cycle"]
    /\ UNCHANGED <<pp_proxies, current_index, retry_times, proxy_file, hc_tasks,
                   calls, consec, rwlocks>>
    /\ NotLocks

\* The cycle has ended (HcEnd): the write guard is dropped, the task sleeps.
HcUnlock ==
    /\ tasks["health_check"] = "cycle"
    /\ hc_pc = "sleep"
    /\ rwlocks' = [rwlocks EXCEPT !.proxies = Release(@, "health_check")]
    /\ tasks' = [tasks EXCEPT !["health_check"] = "done"]
    /\ UNCHANGED ppVars
    /\ NotLocks

\* A loaded ProxyPool with its health-check task asleep, and one task about
\* to call each of next_proxy, get_current_proxy and list_proxies.
InitLocks ==
    /\ pp_proxies \in {l \in LoadResults : l # <<>>}
    /\ current_index \in 0..(NumAddrs - 1)
    /\ retry_times = 1
    /\ proxy_file = AddressesOf(pp_proxies)
    /\ hc_tasks = 1
    /\ hc_pc = "sleep"
    /\ hc_i = 0
    /\ pp_op = None
    /\ calls = <<>>
    /\ consec = [a \in Addrs |-> 0]
    /\ rwlocks = [proxies |-> FreeLock, current_index |-> FreeLock]
    /\ tasks = [t \in Tasks |-> "idle"]
    /\ th = <<>> /\ mutex = {} /\ pool0 = <<>>
    /\ PoolIdle /\ SessionIdle /\ ShutdownIdle /\ CliIdle

\* A step of a call already made
Advance ==
    \/ NextProxyCallProxies
    \/ NextProxyReturn
    \/ GetCurrentCallIndex
    \/ GetCurrentReturn
    \/ ListProxiesReturn
    \/ HcLocked
    \/ \E res \in ProbeResults : HcProbe(res)
    \/ HcEnd
    \/ HcUnlock

NextLocks ==
    \/ NextProxyCallIndex
    \/ GetCurrentCallProxies
    \/ ListProxiesCall
    \/ HcWake
    \/ Advance

\* The runtime polls every task that can go on.
LocksFairness == WF_vars(Advance)

SpecLocks == InitLocks /\ [][NextLocks]_vars /\ LocksFairness

\* A call has been made and has not returned.
InCall(t) == tasks[t] \notin {"idle", "done"}

\* C36: no interleaving of next_proxy, get_current_proxy, list_proxies and a
\* health-check cycle deadlocks: as long as a call has not returned, some
\* call that has been made can take a step.
C36_NoDeadlock ==
    (\E t \in Tasks : InCall(t)) => ENABLED Advance

(***************************************************************************)
(* One health-check cycle as a whole: which entries it probes              *)
(***************************************************************************)
\* The while loop of the cycle from index i on: the k-th probe of the cycle
\* yields outcome[k]; probed collects the addresses handed to
\* test_proxy_health, in order.
RECURSIVE HcLoop(_, _, _, _, _)
HcLoop(list, i, outcome, max, probed) ==
    IF i >= Len(list) THEN [list |-> list, probed |-> probed]
    ELSE HcLoop(HcBody(list, i, outcome[Len(probed) + 1], max).list,
                HcBody(list, i, outcome[Len(probed) + 1], max).i,
                outcome, max,
                Append(probed, list[i + 1].address))

\* A whole cycle under the write lock: the loop, the sort, the file.  The
\* addresses probed are kept in calls.
HcCycle(outcome) ==
    /\ hc_tasks >= 1
    /\ hc_pc = "sleep"
    /\ LET out == HcLoop(pp_proxies, 0, outcome, retry_times, <<>>)
       IN  /\ pp_proxies' = sort_by_latency(out.list)
           /\ proxy_file' = IF out.list # <<>>
                            THEN AddressesOf(sort_by_latency(out.list))
                            ELSE proxy_file
           /\ calls' = out.probed
    /\ pp_op' = Some(outcome)
    /\ UNCHANGED <<current_index, retry_times, hc_tasks, hc_pc, hc_i, consec>>
    /\ NotProxyPool

\* The lists a cycle can find: entries of distinct addresses in ascending
\* order of latency, each with fewer failures counted than retry_times
\* (none when retry_times is 0).
ListsAtCycleStart(max) ==
    {l \in SeqsUpTo([address : Addrs, latency : Latencies,
                      fail_count : 0..(IF max = 0 THEN 0 ELSE max - 1)], NumAddrs) :
        /\ \A j, k \in 1..Len(l) : j # k => l[j].address # l[k].address
        /\ \A k \in 1..(Len(l) - 1) : l[k].latency <= l[k + 1].latency}

\* A loaded ProxyPool whose health-check task is about to run a cycle
InitProbes ==
    /\ retry_times \in 0..MaxRetry
    /\ pp_proxies \in ListsAtCycleStart(retry_times)
    /\ current_index = 0
    /\ proxy_file = AddressesOf(pp_proxies)
    /\ hc_tasks = 1
    /\ hc_pc = "sleep"
    /\ hc_i = 0
    /\ pp_op = None
    /\ calls = <<>>
    /\ consec = [a \in Addrs |-> 0]
    /\ PoolIdle /\ SessionIdle /\ ShutdownIdle
    /\ ConcurrentIdle /\ CliIdle

NextProbes ==
    /\ pp_op = None
    /\ \E outcome \in [1..NumAddrs -> ProbeResults] : HcCycle(outcome)

SpecProbes == InitProbes /\ [][NextProbes]_vars

\* C37: a cycle probes every entry that is in the list when it starts
\* exactly once, in the order of the list, also when entries are removed
\* on the way.
C37_EachProbedOnce ==
    [][pp_op' # None => calls' = AddressesOf(pp_proxies)]_vars

\* A cycle has removed the first of two entries and probed the second.
C37_Witness ==
    /\ pp_op # None
    /\ Len(calls) = 2
    /\ Len(pp_proxies) = 1
    /\ pp_proxies[1].address = calls[2]

(***************************************************************************)
(* The current upstream across a health-check cycle                        *)
(***************************************************************************)
\* The address get_current_proxy returns, 0 when it returns None
CurrentAddress(list, index) ==
    IF get_current_proxy(list, index) = None THEN 0
    ELSE Unwrap(get_current_proxy(list, index)).address

\* C38: a health-check cycle that evicts no entry leaves get_current_proxy
\* returning the address it returned before the cycle.
C38_CycleKeepsCurrent ==
    [][(pp_op' # None /\ Len(pp_proxies') = Len(pp_proxies)) =>
            CurrentAddress(pp_proxies', current_index')
                = CurrentAddress(pp_proxies, current_index)]_vars

(***************************************************************************)
(* load_from_file when it fails                                            *)
(***************************************************************************)
\* C39: a call of load_from_file that returns an error leaves the list as
\* it was, and a call that replaces the list starts the health check: a
\* pool that holds entries has a health-check task.
C39_LoadedPoolIsChecked ==
    pp_proxies # <<>> => hc_tasks >= 1

(***************************************************************************)
(* The two status fields of a Proxy                                        *)
(***************************************************************************)
\* C40: every entry of the pool has proxy.status equal to
\* proxy.info.status.
C40_StatusFieldsAgree ==
    \A id \in DOMAIN proxies : proxies[id].status = proxies[id].info_status

====
